---- MODULE Spec2Model ----
(***************************************************************************)
(* The ledger/accounting core of AlgoTrader: Position, Portfolio and the   *)
(* Broker's transaction dispatch and batch (context manager) protocol.     *)
(* Money is counted in whole units; Position objects live in a heap        *)
(* (position_objects) and are referred to by their index, as Python        *)
(* refers to them by identity.                                             *)
(***************************************************************************)
EXTENDS Integers, Sequences, FiniteSets, TLC

\* ------------------------------------------------------------------ bounds
\* Number of handler calls explored in one behaviour.
MaxOps == 3

\* Inputs the callers draw from.
Portfolios == {1, 2}
Tickers == {"A", "B"}
InitialContributions == {3}
Amounts == {3}
BuyPrices == {2}
SellPrices == {2, 3}
Quantities == {0, 1, 2}
DividendAmounts == {1}
SettlementAmounts == {1}

\* ------------------------------------------------------------- constants
\* Python's None for an optional position id, ticker, quantity, timestamp.
NoPosition == 0
NoTimestamp == 0
NoQuantity == 0 - 1
NoTicker == "None"

\* ------------------------------------------------------------- Position
NewPosition(portfolio_id, ticker, entry_price, quantity, open_timestamp, position_id) ==
    [id |-> position_id,
     portfolio_id |-> portfolio_id,
     ticker |-> ticker,
     quantity |-> quantity,
     entry_price |-> entry_price,
     exit_price |-> 0,
     opened_timestamp |-> open_timestamp,
     closed_timestamp |-> NoTimestamp,
     dividends_received |-> 0,
     cash_settlements_received |-> 0,
     is_closed |-> FALSE]

\* Position.__init__'s first assertion.
PositionInitAssertion(quantity) == quantity >= 1

entry_value(position) == position.quantity * position.entry_price

exit_value(position) == position.quantity * position.exit_price

realised_pl_with_dividends(position) ==
    (exit_value(position) - entry_value(position)) + position.cash_settlements_received
        + position.dividends_received
realised_pl(position) ==
    (exit_value(position) - entry_value(position)) + position.cash_settlements_received

\* Position.close's assertion, and the fields it sets.
CloseAssertionNone(position) == TRUE
CloseAssertion(position) == position.is_closed # TRUE

PositionClose(position, price, timestamp) ==
    [position EXCEPT !.exit_price = price,
                     !.is_closed = TRUE,
                     !.closed_timestamp = timestamp]

\* Position.adjust_for_dividend
DividendAssertion(dividend_per_share) == dividend_per_share > 0

\* The dividend counted once for the lot, whatever its quantity.
AdjustForDividendPerLot(position, dividend_per_share) ==
    [position EXCEPT !.dividends_received = @ + dividend_per_share]

AdjustForDividend(position, dividend_per_share) ==
    [position EXCEPT !.dividends_received = @ + position.quantity * dividend_per_share]

\* ------------------------------------------------------------ Portfolio
NewPortfolio(portfolio_id) ==
    [id |-> portfolio_id,
     balance |-> 0,
     contribution |-> 0,
     taxes_paid |-> 0,
     taxes_owing |-> 0,
     tickers |-> {},
     positions |-> {},
     open_positions |-> {},
     open_positions_by_ticker |-> [t \in Tickers |-> {}],
     closed_positions |-> {},
     positions_by_id |-> << >>]

\* Portfolio._pay
PayRaises(amount) == amount < 0

Pay(portfolio, amount) ==
    IF amount > 0 THEN [portfolio EXCEPT !.balance = @ + amount] ELSE portfolio

\* Portfolio._deduct: the guard, and the deduction.
DeductRaisesNever(portfolio, amount) == FALSE
DeductRaises(portfolio, amount) == amount > portfolio.balance

Deduct(portfolio, amount) == [portfolio EXCEPT !.balance = @ - amount]

\* Portfolio.pay_for_buy_order and Portfolio.refund_unfilled_buy_order
\* The order is queued and nothing is set apart for it.
PayForBuyOrderAtCommit(portfolio, amount) == portfolio
PayForBuyOrder(portfolio, amount) == Deduct(portfolio, amount)

RefundNothing(portfolio, amount) == portfolio
RefundUnfilledBuyOrder(portfolio, amount) == Pay(portfolio, amount)

\* Portfolio.deduct_taxes: the amount paid, and the portfolio afterwards.
Min(a, b) == IF a < b THEN a ELSE b

TaxAmountRequested(portfolio, amount) == amount
TaxAmountToPay(portfolio, amount) == Min(portfolio.balance, amount)

DeductTaxes(portfolio, amount) ==
    LET amount_to_pay == TaxAmountToPay(portfolio, amount)
        amount_owing == amount - amount_to_pay
    IN [Deduct(portfolio, amount_to_pay) EXCEPT !.taxes_paid = @ + amount_to_pay,
                                                !.taxes_owing = amount_owing]

\* Portfolio.open_position after the deduction: index the new object `ref`.
IndexPosition(portfolio, ref, position) ==
    [portfolio EXCEPT !.tickers = @ \cup {position.ticker},
                      !.positions = @ \cup {ref},
                      !.open_positions = @ \cup {ref},
                      !.open_positions_by_ticker[position.ticker] = @ \cup {ref},
                      !.positions_by_id = (position.id :> ref) @@ @]

MoveToClosedStillOpen(portfolio, ref, position, credit) ==
    [portfolio EXCEPT !.balance = @ + credit,
                      !.open_positions_by_ticker[position.ticker] = @ \ {ref},
                      !.closed_positions = @ \cup {ref}]

MoveToClosedNoCredit(portfolio, ref, position, credit) ==
    [portfolio EXCEPT !.open_positions = @ \ {ref},
                      !.open_positions_by_ticker[position.ticker] = @ \ {ref},
                      !.closed_positions = @ \cup {ref}]

\* Portfolio.close_position after Position.close: move `ref` to the closed set.
MoveToClosed(portfolio, ref, position, credit) ==
    [portfolio EXCEPT !.balance = @ + credit,
                      !.open_positions = @ \ {ref},
                      !.open_positions_by_ticker[position.ticker] = @ \ {ref},
                      !.closed_positions = @ \cup {ref}]

\* --------------------------------------------------------------- state
VARIABLES
    today,                \* Broker.today
    portfolios,           \* Broker.portfolios: id -> Portfolio
    position_objects,     \* the Position objects created so far (the heap)
    position_by_id,       \* Broker.position_by_id: id -> object
    positions_by_ticker,  \* Broker.positions_by_ticker: ticker -> list of objects
    buy_order_queue,      \* Broker.buy_order_queue
    transactions_queue,   \* Broker.transactions_queue
    in_batch_mode,        \* Broker._in_batch_mode
    position_table,       \* ids of the rows of the database table `position`
    ledger,               \* rows of the database table `transactions`
    scope,                \* the caller's place: "idle", or "open" inside `with broker:`
    propagating,          \* a fatal exception is leaving the `with` block
    last,                 \* the last call made and how it ended
    nops,                 \* calls made so far
    entry,                \* the state when the current/last scope was entered
    scope_log,            \* what happened in the current/last scope
    immediate,            \* the scope's buy orders replayed without deferral
    prev_purchase_date,   \* BuyAndHoldBot.prev_purchase_date
    stock_data            \* Broker.stock_data, by its keys: the tickers with a row today

broker_vars == <<today, portfolios, position_objects, position_by_id, positions_by_ticker,
                 buy_order_queue, transactions_queue, in_batch_mode, stock_data>>
db_vars == <<position_table, ledger>>
caller_vars == <<scope, propagating, last, nops, entry, scope_log, immediate>>
bot_vars == <<prev_purchase_date>>
vars == <<broker_vars, db_vars, caller_vars, bot_vars>>

\* BuyAndHoldBot.__init__: datetime.fromtimestamp(0), years before any day of the data.
NoPurchase == 0 - 30 * 365

\* The objects, indexes and database rows an operation works on.
Memory ==
    [portfolios |-> portfolios,
     position_objects |-> position_objects,
     position_by_id |-> position_by_id,
     positions_by_ticker |-> positions_by_ticker,
     position_table |-> position_table]

Refs == 1..Len(position_objects)

Transaction(portfolio_id, position_id, type, quantity, price, timestamp) ==
    [portfolio_id |-> portfolio_id, position_id |-> position_id, type |-> type,
     quantity |-> quantity, price |-> price, timestamp |-> timestamp]

BuyOrder(portfolio_id, ticker, quantity, price, timestamp) ==
    [portfolio_id |-> portfolio_id, ticker |-> ticker, quantity |-> quantity,
     price |-> price, timestamp |-> timestamp]

\* sqlite's lastrowid for an insert without an id: one past the largest id.
Max(S) == CHOOSE x \in S : \A y \in S : y <= x

NextRowId(table) == Max(table \cup {0}) + 1

\* ---------------------------------------------- Portfolio.open_position
\* given_id is NoPosition when the id is to come from the database insert.
PortfolioOpenPositionIndexFirst(m, portfolio_id, ticker, price, quantity, timestamp, given_id) ==
    LET portfolio == m.portfolios[portfolio_id]
        cost == price * quantity
        traded == [m EXCEPT !.portfolios[portfolio_id].tickers = @ \cup {ticker}]
        deducted == [traded EXCEPT !.portfolios[portfolio_id] = Deduct(portfolio, cost)]
        id == IF given_id = NoPosition THEN NextRowId(m.position_table) ELSE given_id
        position == NewPosition(portfolio_id, ticker, price, quantity, timestamp, id)
        ref == Len(m.position_objects) + 1
    IN  IF DeductRaises(portfolio, cost)
        THEN [raised |-> "InsufficientFundsError", m |-> traded, ref |-> 0]
        ELSE IF ~PositionInitAssertion(quantity)
        THEN [raised |-> "AssertionError", m |-> deducted, ref |-> 0]
        ELSE [raised |-> "ok",
              m |-> [deducted EXCEPT
                        !.position_objects = Append(@, position),
                        !.position_table = IF given_id = NoPosition THEN @ \cup {id} ELSE @,
                        !.portfolios[portfolio_id] = IndexPosition(@, ref, position)],
              ref |-> ref]

PortfolioOpenPosition(m, portfolio_id, ticker, price, quantity, timestamp, given_id) ==
    LET portfolio == m.portfolios[portfolio_id]
        cost == price * quantity
        deducted == [m EXCEPT !.portfolios[portfolio_id] = Deduct(portfolio, cost)]
        id == IF given_id = NoPosition THEN NextRowId(m.position_table) ELSE given_id
        position == NewPosition(portfolio_id, ticker, price, quantity, timestamp, id)
        ref == Len(m.position_objects) + 1
    IN  IF DeductRaises(portfolio, cost)
        THEN [raised |-> "InsufficientFundsError", m |-> m, ref |-> 0]
        ELSE IF ~PositionInitAssertion(quantity)
        THEN [raised |-> "AssertionError", m |-> deducted, ref |-> 0]
        ELSE [raised |-> "ok",
              m |-> [deducted EXCEPT
                        !.position_objects = Append(@, position),
                        !.position_table = IF given_id = NoPosition THEN @ \cup {id} ELSE @,
                        !.portfolios[portfolio_id] = IndexPosition(@, ref, position)],
              ref |-> ref]

\* The broker's own indexing of a new position (broker.py 283-286, 200-201).
Register(m, ref) ==
    LET position == m.position_objects[ref]
    IN  [m EXCEPT !.position_by_id = (position.id :> ref) @@ @,
                  !.positions_by_ticker[position.ticker] = Append(@, ref)]

\* --------------------------------------------- Portfolio.close_position
PortfolioClosePositionAnyOwner(m, portfolio_id, ref, price, timestamp) ==
    LET position == m.position_objects[ref]
        closed == PositionClose(position, price, timestamp)
    IN  IF ~CloseAssertion(position)
        THEN [raised |-> "AssertionError", m |-> m]
        ELSE [raised |-> "ok",
              m |-> [m EXCEPT
                        !.position_objects[ref] = closed,
                        !.portfolios[portfolio_id] =
                            MoveToClosed(@, ref, closed, exit_value(closed))]]
PortfolioClosePosition(m, portfolio_id, ref, price, timestamp) ==
    LET portfolio == m.portfolios[portfolio_id]
        position == m.position_objects[ref]
        closed == PositionClose(position, price, timestamp)
    IN  IF ref \notin portfolio.positions
        THEN [raised |-> "AssertionError", m |-> m]
        ELSE IF ~CloseAssertion(position)
        THEN [raised |-> "AssertionError", m |-> m]
        ELSE [raised |-> "ok",
              m |-> [m EXCEPT
                        !.position_objects[ref] = closed,
                        !.portfolios[portfolio_id] =
                            MoveToClosed(@, ref, closed, exit_value(closed))]]

\* ------------------------------------------------ Portfolio.pay_dividend
PortfolioPayDividend(m, portfolio_id, ref, amount) ==
    LET position == m.position_objects[ref]
        adjusted == AdjustForDividend(position, amount)
        total_dividend_amount == position.quantity * amount
    IN  IF ~DividendAssertion(amount)
        THEN [raised |-> "AssertionError", m |-> m]
        ELSE IF PayRaises(total_dividend_amount)
        THEN [raised |-> "ValueError", m |-> [m EXCEPT !.position_objects[ref] = adjusted]]
        ELSE [raised |-> "ok",
              m |-> [m EXCEPT
                        !.position_objects[ref] = adjusted,
                        !.portfolios[portfolio_id] = Pay(@, total_dividend_amount)]]

\* ----------------------------------------- Portfolio.pay_cash_settlement
PortfolioPayCashSettlement(m, portfolio_id, ref, amount) ==
    IF PayRaises(amount)
    THEN [raised |-> "ValueError", m |-> m]
    ELSE [raised |-> "ok",
          m |-> [m EXCEPT
                    !.portfolios[portfolio_id] = Pay(@, amount),
                    !.position_objects[ref].cash_settlements_received = @ + amount]]

\* ------------------------------------------ Broker._execute_transaction
transactions_that_require_position_ids == {"SELL", "DIVIDEND", "CASH_SETTLEMENT"}

CheckTransactionPreconditions(m, type, ticker, quantity, position_id) ==
    /\ type \in transactions_that_require_position_ids =>
            /\ position_id # NoPosition
            /\ position_id \in DOMAIN m.position_by_id
    /\ type = "BUY" =>
            /\ quantity # NoQuantity
            /\ ticker # NoTicker

Outcome(raised, m, position_id, quantity, price) ==
    [raised |-> raised, m |-> m, position_id |-> position_id,
     quantity |-> quantity, price |-> price]

\* Lines 273-300: the call on the portfolio, then the quantity of the ledger row.
Dispatch(m, batch, type, portfolio_id, price, quantity, position_id, ticker, now) ==
    LET portfolio == m.portfolios[portfolio_id]
    IN  CASE type = "DEPOSIT" ->
                IF PayRaises(price)
                THEN Outcome("ValueError", m, position_id, quantity, price)
                ELSE Outcome("ok",
                             [m EXCEPT !.portfolios[portfolio_id] =
                                 [Pay(@, price) EXCEPT !.contribution = @ + price]],
                             position_id, 1, price)
          [] type = "WITHDRAWAL" ->
                IF DeductRaises(portfolio, price)
                THEN Outcome("InsufficientFundsError", m, position_id, quantity, price)
                ELSE Outcome("ok",
                             [m EXCEPT !.portfolios[portfolio_id] = Deduct(@, price)],
                             position_id, 1, price)
          [] type = "BUY" /\ ~batch ->
                LET o == PortfolioOpenPosition(m, portfolio_id, ticker, price, quantity,
                                               now, NoPosition)
                IN  IF o.raised # "ok"
                    THEN Outcome(o.raised, o.m, position_id, quantity, price)
                    ELSE Outcome("ok", Register(o.m, o.ref),
                                 o.m.position_objects[o.ref].id, quantity, price)
          [] type = "BUY" /\ batch ->
                Outcome("ok", m, position_id, quantity, price)
          [] type = "SELL" ->
                LET ref == m.position_by_id[position_id]
                    c == PortfolioClosePosition(m, portfolio_id, ref, price, now)
                IN  IF c.raised # "ok"
                    THEN Outcome(c.raised, c.m, position_id, quantity, price)
                    ELSE Outcome("ok", c.m, position_id,
                                 c.m.position_objects[ref].quantity, price)
          [] type = "DIVIDEND" ->
                LET ref == m.position_by_id[position_id]
                    c == PortfolioPayDividend(m, portfolio_id, ref, price)
                IN  IF c.raised # "ok"
                    THEN Outcome(c.raised, c.m, position_id, quantity, price)
                    ELSE Outcome("ok", c.m, position_id,
                                 c.m.position_objects[ref].quantity, price)
          [] type = "CASH_SETTLEMENT" ->
                LET ref == m.position_by_id[position_id]
                    c == PortfolioPayCashSettlement(m, portfolio_id, ref, price)
                IN  IF c.raised # "ok"
                    THEN Outcome(c.raised, c.m, position_id, quantity, price)
                    ELSE Outcome("ok", c.m, position_id, 1, price)
          [] type = "TAX" ->
                Outcome("ok",
                        [m EXCEPT !.portfolios[portfolio_id] = DeductTaxes(@, price)],
                        position_id, 1, TaxAmountToPay(portfolio, price))

\* Exceptions the spec calls fatal (programming errors); InsufficientFundsError is not.
Fatal(result) == result \in {"AssertionError", "ValueError", "KeyError"}

\* What the caller knows of a call: its arguments, how it ended, and the balances it
\* saw before making it.
Call(op, portfolio_id, price, quantity, position_id, ticker, result) ==
    [op |-> op, portfolio_id |-> portfolio_id, price |-> price, quantity |-> quantity,
     position_id |-> position_id, ticker |-> ticker, result |-> result,
     balance_before |-> [p \in Portfolios |-> portfolios[p].balance]]

\* The same buy order executed outside batch mode, on the replayed memory.
Replay(type, portfolio_id, price, quantity, ticker, result) ==
    LET o == Dispatch(immediate.m, FALSE, type, portfolio_id, price, quantity,
                      NoPosition, ticker, today)
    IN  [m |-> o.m,
         same_rejections |-> /\ immediate.same_rejections
                             /\ (o.raised = "InsufficientFundsError")
                                    <=> (result = "InsufficientFundsError")]

\* How a call of _execute_transaction ends: the memory it leaves, the queues, the
\* ledger, and what the caller sees.
Ends(type, portfolio_id, price, quantity, position_id, ticker, result, m, boq, tq, rows) ==
    /\ portfolios' = m.portfolios
    /\ position_objects' = m.position_objects
    /\ position_by_id' = m.position_by_id
    /\ positions_by_ticker' = m.positions_by_ticker
    /\ position_table' = m.position_table
    /\ buy_order_queue' = boq
    /\ transactions_queue' = tq
    /\ ledger' = rows
    /\ UNCHANGED <<today, in_batch_mode, scope, entry>>
    /\ last' = Call(type, portfolio_id, price, quantity, position_id, ticker, result)
    /\ nops' = nops + 1
    /\ UNCHANGED prev_purchase_date
    /\ UNCHANGED stock_data
    /\ propagating' = (scope = "open" /\ Fatal(result))
    /\ scope_log' = IF scope = "open"
                    THEN [scope_log EXCEPT !.fatal = @ \/ Fatal(result),
                                           !.only_buys = @ /\ type = "BUY",
                                           !.calls = @ + 1]
                    ELSE scope_log
    /\ immediate' = IF scope = "open" /\ type = "BUY"
                    THEN Replay(type, portfolio_id, price, quantity, ticker, result)
                    ELSE immediate

\* Lines 304-319: where the row of a transaction that went through is put.
RecordOverLast(batch, type, order, row) ==
    [buy_order_queue |-> IF batch /\ type = "BUY"
                         THEN Append(buy_order_queue, order) ELSE buy_order_queue,
     transactions_queue |-> IF batch /\ type # "BUY"
                            THEN Append(transactions_queue, row) ELSE transactions_queue,
     ledger |-> IF ~batch THEN Append(SubSeq(ledger, 1, Len(ledger) - 1), row) ELSE ledger]
RecordAlsoInserts(batch, type, order, row) ==
    [buy_order_queue |-> IF batch /\ type = "BUY"
                         THEN Append(buy_order_queue, order) ELSE buy_order_queue,
     transactions_queue |-> IF batch /\ type # "BUY"
                            THEN Append(transactions_queue, row) ELSE transactions_queue,
     ledger |-> IF type # "BUY" \/ ~batch THEN Append(ledger, row) ELSE ledger]
Record(batch, type, order, row) ==
    [buy_order_queue |-> IF batch /\ type = "BUY"
                         THEN Append(buy_order_queue, order) ELSE buy_order_queue,
     transactions_queue |-> IF batch /\ type # "BUY"
                            THEN Append(transactions_queue, row) ELSE transactions_queue,
     ledger |-> IF ~batch THEN Append(ledger, row) ELSE ledger]

ExecuteTransaction(type, portfolio_id, price, quantity, position_id, ticker) ==
    LET m == Memory
        d == Dispatch(m, in_batch_mode, type, portfolio_id, price, quantity,
                      position_id, ticker, today)
        amount == d.quantity * d.price
        prepaid == [d.m EXCEPT !.portfolios[portfolio_id] = PayForBuyOrder(@, amount)]
        order == BuyOrder(portfolio_id, ticker, d.quantity, d.price, today)
        row == Transaction(portfolio_id, d.position_id, type, d.quantity, d.price, today)
        r == Record(in_batch_mode, type, order, row)
    IN  /\ nops < MaxOps
        /\ ~propagating
        /\ IF ~CheckTransactionPreconditions(m, type, ticker, quantity, position_id)
           THEN Ends(type, portfolio_id, price, quantity, position_id, ticker,
                     "AssertionError", m, buy_order_queue, transactions_queue, ledger)
           ELSE IF d.raised # "ok"
           THEN Ends(type, portfolio_id, price, quantity, position_id, ticker,
                     d.raised, d.m, buy_order_queue, transactions_queue, ledger)
           ELSE IF in_batch_mode /\ type = "BUY"
           THEN IF DeductRaises(d.m.portfolios[portfolio_id], amount)
                THEN Ends(type, portfolio_id, price, quantity, position_id, ticker,
                          "InsufficientFundsError", d.m, buy_order_queue,
                          transactions_queue, ledger)
                ELSE Ends(type, portfolio_id, price, quantity, position_id, ticker,
                          "ok", prepaid, r.buy_order_queue, r.transactions_queue, r.ledger)
           ELSE Ends(type, portfolio_id, price, quantity, position_id, ticker,
                     "ok", d.m, r.buy_order_queue, r.transactions_queue, r.ledger)

\* ------------------------------------------------- the broker's callers
AddContribution(amount, portfolio_id) ==
    ExecuteTransaction("DEPOSIT", portfolio_id, amount, NoQuantity, NoPosition, NoTicker)

Withdraw(amount, portfolio_id) ==
    ExecuteTransaction("WITHDRAWAL", portfolio_id, amount, NoQuantity, NoPosition, NoTicker)

ExecuteBuyOrder(ticker, quantity, portfolio_id, price) ==
    ExecuteTransaction("BUY", portfolio_id, price, quantity, NoPosition, ticker)

ClosePosition(ref, price) ==
    ExecuteTransaction("SELL", position_objects[ref].portfolio_id, price, NoQuantity,
                       position_objects[ref].id, NoTicker)

\* A sell order for a position id the broker never registered.
SellUnregistered(portfolio_id, price) ==
    ExecuteTransaction("SELL", portfolio_id, price, NoQuantity,
                       NextRowId(DOMAIN position_by_id), NoTicker)

PayDividendTo(ref, amount) ==
    ExecuteTransaction("DIVIDEND", position_objects[ref].portfolio_id, amount, NoQuantity,
                       position_objects[ref].id, NoTicker)

PayCashSettlementTo(ref, amount) ==
    ExecuteTransaction("CASH_SETTLEMENT", position_objects[ref].portfolio_id, amount,
                       NoQuantity, position_objects[ref].id, NoTicker)

DeductTax(amount, portfolio_id) ==
    ExecuteTransaction("TAX", portfolio_id, amount, NoQuantity, NoPosition, NoTicker)

\* ------------------------------------------- Broker.__enter__ / __exit__
Snapshot ==
    [portfolios |-> portfolios, position_objects |-> position_objects, ledger |-> ledger,
     position_by_id |-> position_by_id]

\* A scope entered with the queues as the scope before left them.
EnterKeepingQueues ==
    /\ nops < MaxOps
    /\ scope = "idle"
    /\ in_batch_mode' = TRUE
    /\ UNCHANGED <<today, portfolios, position_objects, position_by_id,
                   positions_by_ticker, db_vars, buy_order_queue, transactions_queue>>
    /\ scope' = "open"
    /\ propagating' = FALSE
    /\ last' = Call("ENTER", 0, 0, NoQuantity, NoPosition, NoTicker, "ok")
    /\ nops' = nops + 1
    /\ UNCHANGED prev_purchase_date
    /\ UNCHANGED stock_data
    /\ entry' = Snapshot
    /\ scope_log' = [fatal |-> FALSE, only_buys |-> TRUE, calls |-> 0]
    /\ immediate' = [m |-> Memory, same_rejections |-> TRUE]

Enter ==
    /\ nops < MaxOps
    /\ scope = "idle"
    /\ buy_order_queue' = << >>
    /\ transactions_queue' = << >>
    /\ in_batch_mode' = TRUE
    /\ UNCHANGED <<today, portfolios, position_objects, position_by_id,
                   positions_by_ticker, db_vars>>
    /\ scope' = "open"
    /\ propagating' = FALSE
    /\ last' = Call("ENTER", 0, 0, NoQuantity, NoPosition, NoTicker, "ok")
    /\ nops' = nops + 1
    /\ UNCHANGED prev_purchase_date
    /\ UNCHANGED stock_data
    /\ entry' = Snapshot
    /\ scope_log' = [fatal |-> FALSE, only_buys |-> TRUE, calls |-> 0]
    /\ immediate' = [m |-> Memory, same_rejections |-> TRUE]

\* Line 207: the id of the next queued order's position.
SamePositionId(id) == id
NextPositionId(id) == id + 1

\* The loop of __exit__ over the buy-order queue, from order i on.
RECURSIVE Materialise(_, _, _, _)
Materialise(c, queue, i, next_position_id) ==
    IF i > Len(queue)
    THEN c
    ELSE LET order == queue[i]
             amount == order.quantity * order.price
             refunded == [c.m EXCEPT !.portfolios[order.portfolio_id] =
                                            RefundUnfilledBuyOrder(@, amount)]
             o == PortfolioOpenPosition(refunded, order.portfolio_id, order.ticker,
                                        order.price, order.quantity, order.timestamp,
                                        next_position_id)
             row == Transaction(order.portfolio_id, next_position_id, "BUY",
                                order.quantity, order.price, order.timestamp)
         IN  IF PayRaises(amount)
             THEN [c EXCEPT !.raised = "ValueError"]
             ELSE IF o.raised # "ok"
             THEN [c EXCEPT !.raised = o.raised, !.m = o.m]
             ELSE Materialise([raised |-> "ok",
                               m |-> Register(o.m, o.ref),
                               transactions_queue |-> Append(c.transactions_queue, row),
                               inserted |-> c.inserted \cup {next_position_id}],
                              queue, i + 1, NextPositionId(next_position_id))

\* Line 222, reached only when the commit did not raise.
ModeAfterExit(raised) == IF raised = "ok" THEN FALSE ELSE in_batch_mode

Exit ==
    LET c == Materialise([raised |-> "ok", m |-> Memory,
                          transactions_queue |-> transactions_queue, inserted |-> {}],
                         buy_order_queue, 1, NextRowId(position_table))
    IN  /\ scope = "open"
        /\ portfolios' = c.m.portfolios
        /\ position_objects' = c.m.position_objects
        /\ position_by_id' = c.m.position_by_id
        /\ positions_by_ticker' = c.m.positions_by_ticker
        /\ transactions_queue' = c.transactions_queue
        \* `with self.db_connection:` commits both inserts, or rolls them back.
        /\ position_table' = IF c.raised = "ok" THEN position_table \cup c.inserted
                                                ELSE position_table
        /\ ledger' = IF c.raised = "ok" THEN ledger \o c.transactions_queue ELSE ledger
        /\ in_batch_mode' = ModeAfterExit(c.raised)
        /\ UNCHANGED <<today, buy_order_queue, entry, immediate>>
        /\ scope' = "idle"
        /\ propagating' = FALSE
        /\ last' = Call("EXIT", 0, 0, NoQuantity, NoPosition, NoTicker, c.raised)
        /\ nops' = nops
        /\ UNCHANGED prev_purchase_date
        /\ UNCHANGED stock_data
        /\ scope_log' = [scope_log EXCEPT !.fatal = @ \/ Fatal(c.raised)]

\* ------------------------------------------------------- specification
\* Broker.create_portfolio for each owner: a portfolio and its first deposit.
CreatePortfolios(contribution) ==
    [p \in Portfolios |->
        [Pay(NewPortfolio(p), contribution[p]) EXCEPT !.contribution = @ + contribution[p]]]

RECURSIVE FirstDeposits(_, _)
FirstDeposits(contribution, p) ==
    IF p \notin Portfolios
    THEN << >>
    ELSE <<Transaction(p, NoPosition, "DEPOSIT", 1, contribution[p], 1)>>
            \o FirstDeposits(contribution, p + 1)

Init ==
    \E contribution \in [Portfolios -> InitialContributions] :
        /\ today = 1
        /\ portfolios = CreatePortfolios(contribution)
        /\ position_objects = << >>
        /\ position_by_id = << >>
        /\ positions_by_ticker = [t \in Tickers |-> << >>]
        /\ buy_order_queue = << >>
        /\ transactions_queue = << >>
        /\ in_batch_mode = FALSE
        /\ position_table = {}
        /\ ledger = FirstDeposits(contribution, 1)
        /\ scope = "idle"
        /\ propagating = FALSE
        /\ last = Call("INIT", 0, 0, NoQuantity, NoPosition, NoTicker, "ok")
        /\ nops = 0
        /\ prev_purchase_date = NoPurchase
        /\ stock_data = Tickers
        /\ entry = Snapshot
        /\ scope_log = [fatal |-> FALSE, only_buys |-> TRUE, calls |-> 0]
        /\ immediate = [m |-> Memory, same_rejections |-> TRUE]

Next ==
    \/ \E p \in Portfolios, a \in Amounts : AddContribution(a, p)
    \/ \E p \in Portfolios, a \in Amounts : Withdraw(a, p)
    \/ \E p \in Portfolios, t \in Tickers, q \in Quantities, price \in BuyPrices :
            ExecuteBuyOrder(t, q, p, price)
    \/ \E ref \in Refs, price \in SellPrices : ClosePosition(ref, price)
    \/ \E p \in Portfolios, price \in BuyPrices : SellUnregistered(p, price)
    \/ \E ref \in Refs, d \in DividendAmounts : PayDividendTo(ref, d)
    \/ \E ref \in Refs, a \in SettlementAmounts : PayCashSettlementTo(ref, a)
    \/ \E p \in Portfolios, a \in Amounts : DeductTax(a, p)
    \/ Enter
    \/ Exit

Spec == Init /\ [][Next]_vars

\* ------------------------------------------------------------- helpers
\* A step that is a call of _execute_transaction of the given type.
IsCall(types) == nops' = nops + 1 /\ last'.op \in types

\* A step that is the exit of the `with broker:` block.
IsExit == scope = "open" /\ scope' = "idle"

Balance(p) == portfolios[p].balance

\* ------------------------------------------------------------------ C1
\* C1 (solvency): with non-negative amounts and prices, every portfolio's cash
\* balance is >= 0 after each operation, executed immediately or inside a batch
\* scope (prepay at queue time, refund and deduction at commit included).
C1_Solvency == \A p \in Portfolios : portfolios[p].balance >= 0

\* A tax deduction larger than the balance has emptied the account and left a
\* liability, inside a batch scope.
C1_Witness ==
    /\ last.op = "TAX" /\ last.result = "ok"
    /\ portfolios[last.portfolio_id].balance = 0
    /\ portfolios[last.portfolio_id].taxes_owing > 0
    /\ last.balance_before[last.portfolio_id] > 0
    /\ scope = "open"

\* ------------------------------------------------------------------ C2
\* C2 (batch atomicity): if a transaction issued inside a batch scope, or a step of
\* the commit at scope exit, fails a fatal precondition, then after the scope has
\* exited every portfolio's balance and open/closed position sets and the
\* committed ledger are what they were at scope entry.
C2_BatchAtomicity ==
    (scope = "idle" /\ last.op = "EXIT" /\ scope_log.fatal) =>
        /\ \A p \in Portfolios :
                /\ portfolios[p].balance = entry.portfolios[p].balance
                /\ portfolios[p].open_positions = entry.portfolios[p].open_positions
                /\ portfolios[p].closed_positions = entry.portfolios[p].closed_positions
        /\ ledger = entry.ledger

\* ------------------------------------------------------------------ C3
\* C3 (fail before mutate on a buy): a buy whose price*quantity exceeds the
\* portfolio's balance raises InsufficientFundsError, inside or outside a batch
\* scope, and leaves the balance, the portfolio's position sets and indexes, its
\* traded-ticker set, the broker's position indexes, the buy-order queue and the
\* ledger unchanged.
C3_BuyFailsBeforeMutate ==
    [][ (IsCall({"BUY"}) /\ last'.price * last'.quantity > Balance(last'.portfolio_id))
            => /\ last'.result = "InsufficientFundsError"
               /\ UNCHANGED <<portfolios, position_objects, position_by_id,
                              positions_by_ticker, buy_order_queue, transactions_queue,
                              position_table, ledger>> ]_vars

\* An order was refused inside a batch scope that already holds a queued order.
C3_Witness ==
    /\ last.op = "BUY" /\ last.result = "InsufficientFundsError"
    /\ last.price * last.quantity > portfolios[last.portfolio_id].balance
    /\ scope = "open"
    /\ Len(buy_order_queue) >= 1

\* ------------------------------------------------------------------ C4
\* The ledger rows of one portfolio, oldest first.
RowsOf(p) == SelectSeq(ledger, LAMBDA row : row.portfolio_id = p)

\* Portfolio p has done exactly: deposit, buy, dividend to that position, close of
\* that position (the first k of these), each executed immediately.
Scenario(p, k) ==
    LET rows == RowsOf(p)
    IN  /\ nops = k - 1
        /\ Len(ledger) = Cardinality(Portfolios) + k - 1
        /\ Len(rows) = k
        /\ rows[1].type = "DEPOSIT"
        /\ k >= 2 => rows[2].type = "BUY"
        /\ k >= 3 => rows[3].type = "DIVIDEND" /\ rows[3].position_id = rows[2].position_id
        /\ k >= 4 => rows[4].type = "SELL" /\ rows[4].position_id = rows[2].position_id

ScenarioBalances(p) ==
    LET rows == RowsOf(p)
        D == rows[1].price
        q == rows[2].quantity
        bought_at == rows[2].price
    IN  /\ Scenario(p, 2) => Balance(p) = D - q * bought_at
        /\ Scenario(p, 3) => Balance(p) = D - q * bought_at + q * rows[3].price
        /\ Scenario(p, 4) =>
                Balance(p) = D - q * bought_at + q * rows[3].price + q * rows[4].price

\* C4 as claimed: after deposit D, buy of q at p, dividend d per share and close at
\* x, the balance is D - q*p + q*d + q*x and the position's realised P&L is
\* (q*x - q*p) + q*d.
C4_ScenarioAsClaimed ==
    \A p \in Portfolios :
        /\ ScenarioBalances(p)
        /\ Scenario(p, 4) =>
                LET rows == RowsOf(p)
                    q == rows[2].quantity
                    position == position_objects[position_by_id[rows[2].position_id]]
                IN  realised_pl(position) =
                        (q * rows[4].price - q * rows[2].price) + q * rows[3].price

\* C4 as amended: the balances are as claimed; the realised P&L is q*x - q*p (plus
\* cash settlements, none here), and the dividend q*d is held in dividends_received.
C4_ScenarioAmended ==
    \A p \in Portfolios :
        /\ ScenarioBalances(p)
        /\ Scenario(p, 4) =>
                LET rows == RowsOf(p)
                    q == rows[2].quantity
                    position == position_objects[position_by_id[rows[2].position_id]]
                IN  /\ realised_pl(position) = q * rows[4].price - q * rows[2].price
                    /\ position.dividends_received = q * rows[3].price
                    /\ position.is_closed

\* The whole scenario has run, closing above the entry price.
C4_Witness ==
    \E p \in Portfolios :
        /\ Scenario(p, 4)
        /\ RowsOf(p)[4].price > RowsOf(p)[2].price
        /\ RowsOf(p)[2].quantity = 1

\* ------------------------------------------------------------------ C5
Lot(position) ==
    <<position.ticker, position.quantity, position.entry_price, position.opened_timestamp>>

OpenLots(m, p) == {Lot(m.position_objects[r]) : r \in m.portfolios[p].open_positions}

LotCount(m, p, lot) ==
    Cardinality({r \in m.portfolios[p].open_positions : Lot(m.position_objects[r]) = lot})

SameLots(m1, m2, p) ==
    \A lot \in OpenLots(m1, p) \cup OpenLots(m2, p) :
        LotCount(m1, p, lot) = LotCount(m2, p, lot)

RECURSIVE CostOfOrders(_, _)
CostOfOrders(queue, p) ==
    IF queue = << >>
    THEN 0
    ELSE (IF Head(queue).portfolio_id = p THEN Head(queue).quantity * Head(queue).price
                                          ELSE 0)
            + CostOfOrders(Tail(queue), p)

Fills(order, r) ==
    LET position == position_objects'[r]
    IN  /\ position.portfolio_id = order.portfolio_id
        /\ position.ticker = order.ticker
        /\ position.quantity = order.quantity
        /\ position.entry_price = order.price
        /\ position.opened_timestamp = order.timestamp
        /\ ~position.is_closed
        /\ r \in portfolios'[order.portfolio_id].open_positions
        /\ r \in portfolios'[order.portfolio_id].open_positions_by_ticker[order.ticker]
        /\ position.id \in DOMAIN position_by_id' /\ position_by_id'[position.id] = r

Target(call) == position_by_id[call.position_id]

\* The effect of a non-buy call on its portfolio and its position.
EffectOf(call) ==
    LET p == call.portfolio_id
        before == portfolios[p]
        after == portfolios'[p]
    IN  CASE call.op = "DEPOSIT" ->
                after.balance = before.balance + call.price
                    /\ after.contribution = before.contribution + call.price
          [] call.op = "WITHDRAWAL" ->
                after.balance = before.balance - call.price
          [] call.op = "TAX" ->
                after.balance = before.balance - Min(before.balance, call.price)
                    /\ after.taxes_paid = before.taxes_paid + Min(before.balance, call.price)
          [] call.op = "SELL" ->
                /\ after.balance =
                        before.balance + position_objects[Target(call)].quantity * call.price
                /\ position_objects'[Target(call)].is_closed
                /\ position_objects'[Target(call)].exit_price = call.price
                /\ Target(call) \in after.closed_positions
                /\ Target(call) \notin after.open_positions
          [] call.op = "DIVIDEND" ->
                /\ after.balance =
                        before.balance + position_objects[Target(call)].quantity * call.price
                /\ position_objects'[Target(call)].dividends_received =
                        position_objects[Target(call)].dividends_received
                            + position_objects[Target(call)].quantity * call.price
          [] call.op = "CASH_SETTLEMENT" ->
                /\ after.balance = before.balance + call.price
                /\ position_objects'[Target(call)].cash_settlements_received =
                        position_objects[Target(call)].cash_settlements_received + call.price

NonBuy == {"DEPOSIT", "WITHDRAWAL", "SELL", "DIVIDEND", "CASH_SETTLEMENT", "TAX"}

C8_DeferredModeOffOutsideScope == scope = "idle" => in_batch_mode = FALSE

\* ------------------------------------------------------------------ C9
\* C9 (round trip): buying q shares at price p and closing the position at the same
\* price p, with nothing in between, gives realised P&L 0 and puts the balance back
\* to what it was before the buy.
C9_RoundTrip ==
    [][ ( /\ last.op = "BUY" /\ last.result = "ok" /\ ~in_batch_mode
          /\ IsCall({"SELL"}) /\ last'.result = "ok"
          /\ Len(position_objects) >= 1
          /\ last'.position_id = position_objects[Len(position_objects)].id
          /\ last'.price = last.price ) =>
            LET r == Len(position_objects)
            IN  /\ position_objects'[r].is_closed
                /\ position_objects[r].quantity = last.quantity
                /\ realised_pl(position_objects'[r]) = 0
                /\ portfolios'[last.portfolio_id].balance =
                        last.balance_before[last.portfolio_id]
      ]_vars

\* A position of two shares was bought and at once closed at its entry price.
C9_Witness ==
    /\ Len(ledger) >= 2
    /\ last.op = "SELL" /\ last.result = "ok"
    /\ LET bought == ledger[Len(ledger) - 1]
           sold == ledger[Len(ledger)]
       IN  /\ bought.type = "BUY" /\ sold.type = "SELL"
           /\ bought.position_id = sold.position_id
           /\ bought.price = sold.price
           /\ bought.quantity = 2
           /\ position_objects[position_by_id[sold.position_id]].is_closed

\* ----------------------------------------------------------------- C10
\* C10 (single close): closing an already-closed position fails with an assertion
\* and changes nothing; a closed position stays closed, with the exit price and
\* closing time of its one close.
C10_CloseOnce ==
    [][ /\ ( /\ IsCall({"SELL"})
             /\ last'.position_id \in DOMAIN position_by_id
             /\ position_objects[position_by_id[last'.position_id]].is_closed ) =>
                /\ last'.result = "AssertionError"
                /\ UNCHANGED <<portfolios, position_objects, position_by_id,
                               positions_by_ticker, buy_order_queue, transactions_queue,
                               position_table, ledger>>
        /\ \A r \in 1..Len(position_objects) :
                position_objects[r].is_closed =>
                    /\ position_objects'[r].is_closed
                    /\ position_objects'[r].exit_price = position_objects[r].exit_price
                    /\ position_objects'[r].closed_timestamp =
                            position_objects[r].closed_timestamp
      ]_vars

\* A second close of a closed position has been refused.
C10_Witness ==
    /\ last.op = "SELL" /\ last.result = "AssertionError"
    /\ last.position_id \in DOMAIN position_by_id
    /\ position_objects[position_by_id[last.position_id]].is_closed
    /\ position_objects[position_by_id[last.position_id]].exit_price # last.price

\* ----------------------------------------------------------------- C19
\* The step has created the open position that the buy order last' asks for, as
\* object r, and has indexed and recorded it.
CreatedSynchronously(r) ==
    LET call == last'
        position == position_objects'[r]
    IN  /\ Len(position_objects') = r
        /\ position.portfolio_id = call.portfolio_id
        /\ position.ticker = call.ticker
        /\ position.quantity = call.quantity
        /\ position.entry_price = call.price
        /\ ~position.is_closed
        /\ position.id \in DOMAIN position_by_id'
        /\ position_by_id'[position.id] = r
        /\ positions_by_ticker'[call.ticker] = Append(positions_by_ticker[call.ticker], r)
        /\ r \in portfolios'[call.portfolio_id].open_positions
        /\ r \in portfolios'[call.portfolio_id].open_positions_by_ticker[call.ticker]
        /\ portfolios'[call.portfolio_id].balance =
                portfolios[call.portfolio_id].balance - call.quantity * call.price
        /\ ledger' = Append(ledger, Transaction(call.portfolio_id, position.id, "BUY",
                                                call.quantity, call.price, today))

\* C19 (immediate buy): outside a batch scope a successful execute_buy_order has, on
\* return, created the open Position, indexed it in position_by_id,
\* positions_by_ticker and the portfolio's open sets, reduced the balance by
\* quantity*price and appended exactly one BUY ledger row with the new id.
C19_ImmediateBuyOutsideScope ==
    [][ (IsCall({"BUY"}) /\ scope = "idle" /\ last'.result = "ok") =>
            CreatedSynchronously(Len(position_objects) + 1) ]_vars

\* ----------------------------------------------------------------- C20
\* C20 (transaction preconditions): a SELL, DIVIDEND or CASH_SETTLEMENT whose
\* position id is missing or not registered, and a BUY without a ticker or with a
\* quantity that is not positive, is rejected with an assertion before any balance,
\* position set, queue or ledger changes, in batch mode and outside it.
C20_PreconditionsRejected ==
    [][ ( \/ /\ IsCall(transactions_that_require_position_ids)
             /\ last'.position_id \notin DOMAIN position_by_id
          \/ /\ IsCall({"BUY"})
             /\ (last'.ticker = NoTicker \/ last'.quantity <= 0) ) =>
            /\ last'.result = "AssertionError"
            /\ UNCHANGED <<portfolios, position_objects, position_by_id,
                           positions_by_ticker, buy_order_queue, transactions_queue,
                           position_table, ledger>>
      ]_vars

\* ======================================================================
\* Portfolio and Position called directly, without the broker.
\* ======================================================================

\* Inputs of the direct calls.
UnitBalances == {90}
UnitAmounts == {0 - 1, 40, 100}
UnitTickers == {"A"}
UnitPrices == {0, 30}
UnitQuantities == {0, 1, 3}
UnitDividends == {0, 1}
\* Split coefficients 2, 1.5 and 0.5 as fractions. With the prices and quantities
\* above every cash settlement they produce is a whole number of money units.
SplitCoefficients == {<<2, 1>>, <<3, 2>>, <<1, 2>>}

\* --------------------------------------------------------------- floats
\* A float is kept as an exact fraction <<numerator, denominator>>, denominator > 0.
FromInt(n) == <<n, 1>>

RatEq(a, b) == a[1] * b[2] = b[1] * a[2]

RatLess(a, b) == a[1] * b[2] < b[1] * a[2]

RatAdd(a, b) == <<a[1] * b[2] + b[1] * a[2], a[2] * b[2]>>

RatMul(a, b) == <<a[1] * b[1], a[2] * b[2]>>

\* a / b for b > 0
RatDiv(a, b) == <<a[1] * b[2], a[2] * b[1]>>

\* divmod(x, 1.0)
Floor(x) == x[1] \div x[2]

FractionalPartDropped(x) == <<0, x[2]>>
FractionalPart(x) == <<x[1] % x[2], x[2]>>

\* The whole number of money units a fraction stands for.
IsWhole(x) == x[1] % x[2] = 0

Whole(x) == x[1] \div x[2]

\* ---------------------------------------- Position.adjust_for_stock_split
\* The tuple adjust_for_stock_split returns for a position of `quantity` shares
\* entered at `entry_price`.
StockSplit(quantity, entry_price, split_coefficient) ==
    LET shares == RatMul(FromInt(quantity), split_coefficient)
        whole_shares == Floor(shares)
        fractional_shares == FractionalPart(shares)
        adjusted_price == RatDiv(FromInt(entry_price), split_coefficient)
        cash_settlement_amount == RatMul(fractional_shares, adjusted_price)
    IN  [whole_shares |-> whole_shares,
         fractional_shares |-> fractional_shares,
         adjusted_price |-> adjusted_price,
         cash_settlement_amount |-> cash_settlement_amount]

SplitAssertion(position) == ~position.is_closed

\* The position after adjust_for_stock_split: only the settlement is added.
AdjustForStockSplit(position, split_coefficient) ==
    LET split == StockSplit(position.quantity, position.entry_price, split_coefficient)
    IN  [position EXCEPT
            !.cash_settlements_received = @ + Whole(split.cash_settlement_amount)]

\* ------------------------------------------------------- the direct calls
\* What the caller of a Portfolio or Position method knows of the call.
UnitCall(op, portfolio_id, ref, amount, quantity, ticker, result, returned) ==
    [op |-> op, portfolio_id |-> portfolio_id, ref |-> ref, amount |-> amount,
     quantity |-> quantity, ticker |-> ticker, result |-> result, returned |-> returned]

UnitEnds(call, m) ==
    /\ nops < MaxOps
    /\ portfolios' = m.portfolios
    /\ position_objects' = m.position_objects
    /\ position_table' = m.position_table
    /\ last' = call
    /\ nops' = nops + 1
    /\ UNCHANGED prev_purchase_date
    /\ UNCHANGED stock_data
    /\ UNCHANGED <<today, position_by_id, positions_by_ticker, buy_order_queue,
                   transactions_queue, in_batch_mode, ledger, scope, propagating, entry,
                   scope_log, immediate>>

\* Portfolio.deposit
deposit(portfolio_id, amount) ==
    IF PayRaises(amount)
    THEN UnitEnds(UnitCall("deposit", portfolio_id, 0, amount, NoQuantity, NoTicker,
                           "ValueError", 0), Memory)
    ELSE UnitEnds(UnitCall("deposit", portfolio_id, 0, amount, NoQuantity, NoTicker,
                           "ok", 0),
                  [Memory EXCEPT !.portfolios[portfolio_id] =
                        [Pay(@, amount) EXCEPT !.contribution = @ + amount]])

\* Portfolio.withdraw
withdraw(portfolio_id, amount) ==
    IF DeductRaises(portfolios[portfolio_id], amount)
    THEN UnitEnds(UnitCall("withdraw", portfolio_id, 0, amount, NoQuantity, NoTicker,
                           "InsufficientFundsError", 0), Memory)
    ELSE UnitEnds(UnitCall("withdraw", portfolio_id, 0, amount, NoQuantity, NoTicker,
                           "ok", 0),
                  [Memory EXCEPT !.portfolios[portfolio_id] = Deduct(@, amount)])

\* Portfolio.deduct_taxes
deduct_taxes(portfolio_id, amount) ==
    LET amount_to_pay == TaxAmountToPay(portfolios[portfolio_id], amount)
    IN  IF DeductRaises(portfolios[portfolio_id], amount_to_pay)
        THEN UnitEnds(UnitCall("deduct_taxes", portfolio_id, 0, amount, NoQuantity,
                               NoTicker, "InsufficientFundsError", 0), Memory)
        ELSE UnitEnds(UnitCall("deduct_taxes", portfolio_id, 0, amount, NoQuantity,
                               NoTicker, "ok", amount_to_pay),
                      [Memory EXCEPT !.portfolios[portfolio_id] = DeductTaxes(@, amount)])

\* Portfolio.open_position, the id coming from the database insert
open_position(portfolio_id, ticker, price, quantity) ==
    LET o == PortfolioOpenPosition(Memory, portfolio_id, ticker, price, quantity, today,
                                   NoPosition)
    IN  UnitEnds(UnitCall("open_position", portfolio_id, o.ref, price, quantity, ticker,
                          o.raised, o.ref), o.m)

\* Portfolio.close_position
close_position(portfolio_id, ref, price) ==
    LET c == PortfolioClosePosition(Memory, portfolio_id, ref, price, today)
    IN  UnitEnds(UnitCall("close_position", portfolio_id, ref, price, NoQuantity, NoTicker,
                          c.raised, 0), c.m)

\* Portfolio.pay_dividend of the position's own portfolio
pay_dividend(amount, ref) ==
    LET portfolio_id == position_objects[ref].portfolio_id
        c == PortfolioPayDividend(Memory, portfolio_id, ref, amount)
    IN  UnitEnds(UnitCall("pay_dividend", portfolio_id, ref, amount, NoQuantity, NoTicker,
                          c.raised, 0), c.m)

\* Position.adjust_for_dividend
adjust_for_dividend(ref, dividend_per_share) ==
    LET position == position_objects[ref]
    IN  IF ~DividendAssertion(dividend_per_share)
        THEN UnitEnds(UnitCall("adjust_for_dividend", position.portfolio_id, ref,
                               dividend_per_share, NoQuantity, NoTicker,
                               "AssertionError", 0), Memory)
        ELSE UnitEnds(UnitCall("adjust_for_dividend", position.portfolio_id, ref,
                               dividend_per_share, NoQuantity, NoTicker, "ok",
                               position.quantity * dividend_per_share),
                      [Memory EXCEPT !.position_objects[ref] =
                            AdjustForDividend(position, dividend_per_share)])

\* Position.adjust_for_stock_split
adjust_for_stock_split(ref, split_coefficient) ==
    LET position == position_objects[ref]
    IN  IF ~SplitAssertion(position)
        THEN UnitEnds(UnitCall("adjust_for_stock_split", position.portfolio_id, ref,
                               split_coefficient, NoQuantity, NoTicker,
                               "AssertionError", 0), Memory)
        ELSE UnitEnds(UnitCall("adjust_for_stock_split", position.portfolio_id, ref,
                               split_coefficient, NoQuantity, NoTicker, "ok",
                               StockSplit(position.quantity, position.entry_price,
                                          split_coefficient)),
                      [Memory EXCEPT !.position_objects[ref] =
                            AdjustForStockSplit(position, split_coefficient)])

\* Portfolio.__init__ followed by a first deposit, for each portfolio.
InitUnit ==
    \E balance \in [Portfolios -> UnitBalances] :
        /\ today = 1
        /\ portfolios = CreatePortfolios(balance)
        /\ position_objects = << >>
        /\ position_by_id = << >>
        /\ positions_by_ticker = [t \in Tickers |-> << >>]
        /\ buy_order_queue = << >>
        /\ transactions_queue = << >>
        /\ in_batch_mode = FALSE
        /\ position_table = {}
        /\ ledger = << >>
        /\ scope = "idle"
        /\ propagating = FALSE
        /\ last = UnitCall("init", 0, 0, 0, NoQuantity, NoTicker, "ok", 0)
        /\ nops = 0
        /\ prev_purchase_date = NoPurchase
        /\ stock_data = Tickers
        /\ entry = Snapshot
        /\ scope_log = [fatal |-> FALSE, only_buys |-> TRUE, calls |-> 0]
        /\ immediate = [m |-> Memory, same_rejections |-> TRUE]

NextUnit ==
    \/ \E p \in Portfolios, a \in UnitAmounts : deposit(p, a)
    \/ \E p \in Portfolios, a \in UnitAmounts : withdraw(p, a)
    \/ \E p \in Portfolios, a \in UnitAmounts : deduct_taxes(p, a)
    \/ \E p \in Portfolios, t \in UnitTickers, price \in UnitPrices, q \in UnitQuantities :
            open_position(p, t, price, q)
    \/ \E p \in Portfolios, ref \in Refs, price \in UnitPrices : close_position(p, ref, price)
    \/ \E ref \in Refs, d \in UnitDividends : pay_dividend(d, ref)
    \/ \E ref \in Refs, d \in UnitDividends : adjust_for_dividend(ref, d)
    \/ \E ref \in Refs, c \in SplitCoefficients : adjust_for_stock_split(ref, c)

SpecUnit == InitUnit /\ [][NextUnit]_vars

\* A step that is a direct call of one of the given methods.
IsUnitCall(ops) == nops' = nops + 1 /\ last'.op \in ops

\* ----------------------------------------------------------------- C12
\* C12 (adjustments require an open position): adjust_for_dividend, pay_dividend and
\* adjust_for_stock_split called on a closed position, and a dividend per share
\* <= 0, fail with an assertion and leave the position's dividends_received and
\* cash_settlements_received and the portfolio's balance unchanged.
C12_AdjustmentsRequireOpen ==
    [][ ( /\ IsUnitCall({"adjust_for_dividend", "pay_dividend", "adjust_for_stock_split"})
          /\ \/ position_objects[last'.ref].is_closed
             \/ last'.op # "adjust_for_stock_split" /\ last'.amount <= 0 ) =>
            /\ last'.result = "AssertionError"
            /\ UNCHANGED <<portfolios, position_objects>>
      ]_vars

\* ----------------------------------------------------------------- C13
\* C13 (split quantity): after adjust_for_stock_split(c) on an open position of
\* quantity q the position's own quantity is the whole part of q*c, the whole-share
\* count the call returns.
C13_SplitSetsQuantity ==
    [][ (IsUnitCall({"adjust_for_stock_split"}) /\ last'.result = "ok") =>
            position_objects'[last'.ref].quantity = last'.returned.whole_shares
      ]_vars

\* ----------------------------------------------------------------- C14
\* The last call was adjust_for_stock_split(c) on a position of q shares entered at p.
SplitReturned(q, p, c) ==
    /\ last.op = "adjust_for_stock_split" /\ last.result = "ok"
    /\ position_objects[last.ref].quantity = q
    /\ position_objects[last.ref].entry_price = p
    /\ last.amount = c

\* C14 (split arithmetic): adjust_for_stock_split(c) on quantity q and entry price p
\* returns (whole, frac, adjusted, cash) with 0 <= frac < 1, whole + frac = q*c,
\* adjusted = p/c, cash = frac*adjusted and whole*adjusted + cash = q*p; q=3, p=30,
\* c=2 gives (6, 0, 15, 0) and q=3, p=30, c=1.5 gives (4, 0.5, 20, 10).
C14_SplitArithmetic ==
    (last.op = "adjust_for_stock_split" /\ last.result = "ok") =>
        LET q == position_objects[last.ref].quantity
            p == position_objects[last.ref].entry_price
            c == last.amount
            whole == last.returned.whole_shares
            frac == last.returned.fractional_shares
            adjusted == last.returned.adjusted_price
            cash == last.returned.cash_settlement_amount
        IN  /\ whole \in Int
            /\ ~RatLess(frac, FromInt(0)) /\ RatLess(frac, FromInt(1))
            /\ RatEq(RatAdd(FromInt(whole), frac), RatMul(FromInt(q), c))
            /\ RatEq(RatMul(adjusted, c), FromInt(p))
            /\ RatEq(cash, RatMul(frac, adjusted))
            /\ RatEq(RatAdd(RatMul(FromInt(whole), adjusted), cash), FromInt(q * p))
            /\ SplitReturned(3, 30, <<2, 1>>) =>
                    /\ whole = 6 /\ RatEq(frac, FromInt(0))
                    /\ RatEq(adjusted, FromInt(15)) /\ RatEq(cash, FromInt(0))
            /\ SplitReturned(3, 30, <<3, 2>>) =>
                    /\ whole = 4 /\ RatEq(frac, <<1, 2>>)
                    /\ RatEq(adjusted, FromInt(20)) /\ RatEq(cash, FromInt(10))

\* The split of 3 shares at 30 by 1.5 has been computed.
C14_Witness == SplitReturned(3, 30, <<3, 2>>) /\ last.returned.whole_shares = 4

C16_DepositWithdraw ==
    [][ IsUnitCall({"deposit", "withdraw"}) =>
            LET before == portfolios[last'.portfolio_id]
                after == portfolios'[last'.portfolio_id]
                a == last'.amount
            IN  /\ (last'.op = "deposit" /\ a >= 0) =>
                        /\ last'.result = "ok"
                        /\ after.balance = before.balance + a
                        /\ after.contribution = before.contribution + a
                /\ (last'.op = "withdraw" /\ 0 <= a /\ a <= before.balance) =>
                        /\ last'.result = "ok"
                        /\ after.balance = before.balance - a
                        /\ after.contribution = before.contribution
                /\ a < 0 =>
                        /\ last'.result # "ok"
                        /\ after = before
      ]_vars

\* ----------------------------------------------------------------- C17
\* C17 (Portfolio.close_position): on an open position of this portfolio it credits
\* quantity*price to the balance and moves the position from open_positions and
\* open_positions_by_ticker to closed_positions; on a position that does not belong
\* to this portfolio it fails with an assertion and changes neither the portfolios
\* nor the position.
C17_PortfolioClosePosition ==
    [][ IsUnitCall({"close_position"}) =>
            LET p == last'.portfolio_id
                ref == last'.ref
                position == position_objects[ref]
            IN  /\ ref \in portfolios[p].open_positions =>
                        /\ last'.result = "ok"
                        /\ portfolios'[p].balance =
                                portfolios[p].balance + position.quantity * last'.amount
                        /\ ref \notin portfolios'[p].open_positions
                        /\ ref \notin portfolios'[p].open_positions_by_ticker[position.ticker]
                        /\ ref \in portfolios'[p].closed_positions
                        /\ position_objects'[ref].is_closed
                        /\ \A other \in Portfolios \ {p} : portfolios'[other] = portfolios[other]
                /\ ref \notin portfolios[p].positions =>
                        /\ last'.result = "AssertionError"
                        /\ UNCHANGED <<portfolios, position_objects>>
      ]_vars

\* A position has been closed by its own portfolio, and a close of it by a portfolio
\* it does not belong to has been refused.
C17_Witness ==
    /\ last.op = "close_position" /\ last.result = "AssertionError"
    /\ last.ref \notin portfolios[last.portfolio_id].positions
    /\ last.ref \in portfolios[position_objects[last.ref].portfolio_id].closed_positions
    /\ position_objects[last.ref].exit_price # last.amount

\* ----------------------------------------------------------------- C18
\* C18 (open preconditions): a position can only be opened with quantity >= 1 and
\* price > 0, so every open position has quantity >= 1 and entry price > 0.
C18_OpenPositionsWellFormed ==
    \A p \in Portfolios : \A ref \in portfolios[p].open_positions :
        /\ position_objects[ref].quantity >= 1
        /\ position_objects[ref].entry_price > 0

\* ======================================================================
\* Broker.update: the daily processing, and the strategies that call it
\* ======================================================================
\* Dates are day numbers; a calendar year is DaysPerYear days long.
DaysPerYear == 365
Year(day) == day \div DaysPerYear

\* How far `now` lies after `today`: the next day, or the same day a year later.
DayGaps == {1, DaysPerYear}

\* The rows of historical_marginal_tax_rates and historical_capital_gains_tax_rates,
\* sorted by threshold in descending order; the tables hold the same rows every year.
ordinary_tax_rates == <<[threshold |-> 0, rate |-> 1]>>
capital_gains_tax_rates == <<[threshold |-> 0, rate |-> 0]>>

\* TaxReport's dividend tax config and the bounds of its two tests.
holding_period_offset == 60
min_holding_period == 60
ShortTermDays == 365
MaxDeductibleLosses == 3000

Abs(x) == IF x < 0 THEN 0 - x ELSE x

\* The tax of the highest bracket reached alone.
RECURSIVE CalculateTaxTopBracketOnly(_, _, _)
CalculateTaxTopBracketOnly(residual_amount, tax_brackets, i) ==
    IF i > Len(tax_brackets)
    THEN 0
    ELSE IF residual_amount >= tax_brackets[i].threshold
    THEN tax_brackets[i].rate * (residual_amount - tax_brackets[i].threshold)
    ELSE CalculateTaxTopBracketOnly(residual_amount, tax_brackets, i + 1)

\* TaxReport._calculate_tax, from bracket i on.
RECURSIVE CalculateTax(_, _, _)
CalculateTax(residual_amount, tax_brackets, i) ==
    IF i > Len(tax_brackets)
    THEN 0
    ELSE LET threshold == tax_brackets[i].threshold
             rate == tax_brackets[i].rate
             taxable_amount == residual_amount - threshold
         IN  IF residual_amount >= threshold
             THEN rate * taxable_amount
                    + CalculateTax(residual_amount - taxable_amount, tax_brackets, i + 1)
             ELSE CalculateTax(residual_amount, tax_brackets, i + 1)

RECURSIVE SumRealisedPl(_, _)
SumRealisedPl(m, refs) ==
    IF refs = {}
    THEN 0
    ELSE LET ref == CHOOSE r \in refs : TRUE
         IN  realised_pl(m.position_objects[ref]) + SumRealisedPl(m, refs \ {ref})

RECURSIVE SumAmounts(_, _)
SumAmounts(rows, indices) ==
    IF indices = {}
    THEN 0
    ELSE LET i == CHOOSE j \in indices : TRUE
         IN  rows[i].quantity * rows[i].price + SumAmounts(rows, indices \ {i})

\* Line 657 with the cap left out.
DeductibleLossesUncapped(net_gains) == Abs(Min(0, net_gains))

\* Line 657: self.deductible_losses.
DeductibleLosses(net_gains) == Min(MaxDeductibleLosses, Abs(Min(0, net_gains)))

\* TaxReport.total_tax.
TotalTax(short_term_capital_gains_tax, long_term_capital_gains_tax, deductible_losses) ==
    short_term_capital_gains_tax + long_term_capital_gains_tax - deductible_losses

\* TaxReport.__init__ and total_tax, for the report Portfolio.generate_tax_report
\* makes on report_date.
TaxReport(m, rows, portfolio_id, report_date) ==
    LET portfolio == m.portfolios[portfolio_id]
        start_of_tax_year == (Year(report_date) - 1) * DaysPerYear
        end_of_tax_year == start_of_tax_year + DaysPerYear - 1
        positions_closed_during_tax_year ==
            {ref \in portfolio.closed_positions :
                /\ start_of_tax_year <= m.position_objects[ref].closed_timestamp
                /\ m.position_objects[ref].closed_timestamp <= end_of_tax_year}
        HeldShortTerm(ref) ==
            m.position_objects[ref].closed_timestamp
                - m.position_objects[ref].opened_timestamp <= ShortTermDays
        dividends_for_tax_year ==
            {i \in 1..Len(rows) :
                /\ rows[i].portfolio_id = portfolio_id
                /\ rows[i].type = "DIVIDEND"
                /\ start_of_tax_year <= rows[i].timestamp
                /\ rows[i].timestamp <= end_of_tax_year}
        Qualified(i) ==
            LET position == m.position_objects[portfolio.positions_by_id[rows[i].position_id]]
                dividend_holding_period_end == rows[i].timestamp - holding_period_offset
            IN  /\ position.opened_timestamp
                        <= dividend_holding_period_end - min_holding_period
                /\ \/ ~position.is_closed
                   \/ position.closed_timestamp - position.opened_timestamp
                        > min_holding_period
        short_term_capital_gains ==
            SumRealisedPl(m, {ref \in positions_closed_during_tax_year : HeldShortTerm(ref)})
                + SumAmounts(rows, {i \in dividends_for_tax_year : ~Qualified(i)})
        long_term_capital_gains ==
            SumRealisedPl(m, {ref \in positions_closed_during_tax_year : ~HeldShortTerm(ref)})
                + SumAmounts(rows, {i \in dividends_for_tax_year : Qualified(i)})
        net_gains == short_term_capital_gains + long_term_capital_gains
        deductible_losses == DeductibleLosses(net_gains)
    IN  [short_term_capital_gains |-> short_term_capital_gains,
         long_term_capital_gains |-> long_term_capital_gains,
         deductible_losses |-> deductible_losses,
         total_tax |-> TotalTax(CalculateTax(short_term_capital_gains, ordinary_tax_rates, 1),
                                CalculateTax(long_term_capital_gains, capital_gains_tax_rates,
                                             1),
                                deductible_losses)]

\* ------------------------------ _execute_transaction during an update
\* The broker and its database as one value, passed from one transaction of an
\* update to the next; `raised` is the exception that ended the update, if any.
BrokerState ==
    [m |-> Memory, buy_order_queue |-> buy_order_queue,
     transactions_queue |-> transactions_queue, ledger |-> ledger, raised |-> "ok"]

\* F(x) with x worked out first, as Python works out an argument before the call.
Apply(F(_), x) == CHOOSE y \in {F(v) : v \in {x}} : TRUE

\* Lines 302-319: where a transaction that went through the portfolio is put.
Recorded(b, d, batch, now, type, portfolio_id, ticker) ==
    LET amount == d.quantity * d.price
        prepaid == [d.m EXCEPT !.portfolios[portfolio_id] = PayForBuyOrder(@, amount)]
        order == BuyOrder(portfolio_id, ticker, d.quantity, d.price, now)
        row == Transaction(portfolio_id, d.position_id, type, d.quantity, d.price, now)
    IN  IF d.raised # "ok"
        THEN [b EXCEPT !.raised = d.raised, !.m = d.m]
        ELSE IF batch /\ type = "BUY"
        THEN IF DeductRaises(d.m.portfolios[portfolio_id], amount)
             THEN [b EXCEPT !.raised = "InsufficientFundsError", !.m = d.m]
             ELSE [b EXCEPT !.m = prepaid, !.buy_order_queue = Append(@, order)]
        ELSE IF batch
        THEN [b EXCEPT !.m = d.m, !.transactions_queue = Append(@, row)]
        ELSE [b EXCEPT !.m = d.m, !.ledger = Append(@, row)]

\* Broker._execute_transaction on such a value.
TransactOn(b, batch, now, type, portfolio_id, price, quantity, position_id, ticker) ==
    IF b.raised # "ok"
    THEN b
    ELSE IF ~CheckTransactionPreconditions(b.m, type, ticker, quantity, position_id)
    THEN [b EXCEPT !.raised = "AssertionError"]
    ELSE Apply(LAMBDA d : Recorded(b, d, batch, now, type, portfolio_id, ticker),
               Dispatch(b.m, batch, type, portfolio_id, price, quantity, position_id,
                        ticker, now))

Transact(before, batch, now, type, portfolio_id, price, quantity, position_id, ticker) ==
    Apply(LAMBDA b : TransactOn(b, batch, now, type, portfolio_id, price, quantity,
                                position_id, ticker),
          before)

\* ------------------------------------------------ Broker._do_the_taxes
\* Lines 394-404, for one portfolio.
\* The report and the deduction of the year's end, made on every day.
TaxPortfolioEveryDay(b, batch, now, yesterday, portfolio_id) ==
    Transact(b, batch, now, "TAX", portfolio_id,
             TaxReport(b.m, b.ledger, portfolio_id, now).total_tax
                + b.m.portfolios[portfolio_id].taxes_owing,
             NoQuantity, NoPosition, NoTicker)

TaxPortfolio(b, batch, now, yesterday, portfolio_id) ==
    LET portfolio == b.m.portfolios[portfolio_id]
        tax_report == TaxReport(b.m, b.ledger, portfolio_id, now)
    IN  IF Year(now) > Year(yesterday)
        THEN Transact(b, batch, now, "TAX", portfolio_id,
                      tax_report.total_tax + portfolio.taxes_owing,
                      NoQuantity, NoPosition, NoTicker)
        ELSE IF portfolio.taxes_owing > 0 /\ portfolio.balance > 0
        THEN Transact(b, batch, now, "TAX", portfolio_id, portfolio.taxes_owing,
                      NoQuantity, NoPosition, NoTicker)
        ELSE b

RECURSIVE DoTheTaxes(_, _, _, _, _)
DoTheTaxes(b, batch, now, yesterday, portfolio_id) ==
    IF portfolio_id \notin Portfolios \/ b.raised # "ok"
    THEN b
    ELSE Apply(LAMBDA paid : DoTheTaxes(paid, batch, now, yesterday, portfolio_id + 1),
               TaxPortfolio(b, batch, now, yesterday, portfolio_id))

\* ------------------------------------------ Broker._process_adjustments
\* The filter of the three passes: lambda p: not p.is_closed.
IsOpenForPassAny(m, ref) == TRUE
IsOpenForPass(m, ref) == ~m.position_objects[ref].is_closed

\* Lines 417-418: close, at the last known price, what is open in a removed ticker.
CloseIfOpen(b, batch, now, ref, price) ==
    IF IsOpenForPass(b.m, ref)
    THEN Transact(b, batch, now, "SELL", b.m.position_objects[ref].portfolio_id, price,
                  NoQuantity, b.m.position_objects[ref].id, NoTicker)
    ELSE b

RECURSIVE CloseRemoved(_, _, _, _, _, _)
CloseRemoved(b, batch, now, refs, i, price) ==
    IF i > Len(refs) \/ b.raised # "ok"
    THEN b
    ELSE Apply(LAMBDA closed : CloseRemoved(closed, batch, now, refs, i + 1, price),
               CloseIfOpen(b, batch, now, refs[i], price))

\* Lines 426-428: the dividend of a ticker, paid position by position.
PayIfOpen(b, batch, now, ref, dividend_amount) ==
    IF IsOpenForPass(b.m, ref)
    THEN Transact(b, batch, now, "DIVIDEND", b.m.position_objects[ref].portfolio_id,
                  dividend_amount, NoQuantity, b.m.position_objects[ref].id, NoTicker)
    ELSE b

RECURSIVE PayDividends(_, _, _, _, _, _)
PayDividends(b, batch, now, refs, i, dividend_amount) ==
    IF i > Len(refs) \/ b.raised # "ok"
    THEN b
    ELSE Apply(LAMBDA paid : PayDividends(paid, batch, now, refs, i + 1, dividend_amount),
               PayIfOpen(b, batch, now, refs[i], dividend_amount))

\* The lot is closed and never bought again.
ReplaceLotCloseOnly(settled, batch, now, position, split) ==
    Transact(settled, batch, now, "SELL", position.portfolio_id,
             IF split.whole_shares < 1 THEN 0 ELSE position.entry_price, NoQuantity,
             position.id, NoTicker)

\* Lines 443-448: the lot is closed, and bought again if a whole share is left.
ReplaceLot(settled, batch, now, position, split) ==
    IF split.whole_shares < 1
    THEN Transact(settled, batch, now, "SELL", position.portfolio_id, 0, NoQuantity,
                  position.id, NoTicker)
    ELSE Transact(Transact(settled, batch, now, "SELL", position.portfolio_id,
                           position.entry_price, NoQuantity, position.id, NoTicker),
                  batch, now, "BUY", position.portfolio_id, Whole(split.adjusted_price),
                  split.whole_shares, NoPosition, position.ticker)

\* Lines 436-448: one position of the list made at line 433.
SplitPosition(b, batch, now, ref, split_coefficient) ==
    LET position == b.m.position_objects[ref]
        split == StockSplit(position.quantity, position.entry_price, split_coefficient)
        cash_settlement_amount == Whole(split.cash_settlement_amount)
        adjusted == [b EXCEPT !.m.position_objects[ref] =
                                    AdjustForStockSplit(position, split_coefficient)]
    IN  IF ~SplitAssertion(position)
        THEN [b EXCEPT !.raised = "AssertionError"]
        ELSE Apply(LAMBDA settled : ReplaceLot(settled, batch, now, position, split),
                   IF cash_settlement_amount > 0
                   THEN Transact(adjusted, batch, now, "CASH_SETTLEMENT",
                                 position.portfolio_id, cash_settlement_amount, NoQuantity,
                                 position.id, NoTicker)
                   ELSE adjusted)

RECURSIVE SplitPositions(_, _, _, _, _, _)
SplitPositions(b, batch, now, positions, i, split_coefficient) ==
    IF i > Len(positions) \/ b.raised # "ok"
    THEN b
    ELSE Apply(LAMBDA split : SplitPositions(split, batch, now, positions, i + 1,
                                             split_coefficient),
               SplitPosition(b, batch, now, positions[i], split_coefficient))

\* Lines 423-428 and 430-448, for the row of one ticker.
PayTicker(b, batch, now, ticker, dividend_amount) ==
    IF dividend_amount > 0
    THEN PayDividends(b, batch, now, b.m.positions_by_ticker[ticker], 1, dividend_amount)
    ELSE b

\* The pass over the live filter instead of the list of line 433: what the pass
\* opened is met again by the iteration.
SplitTickerLive(paid, batch, now, ticker, split_coefficient) ==
    IF paid.raised = "ok" /\ ~RatEq(split_coefficient, FromInt(1))
    THEN Apply(LAMBDA once :
                    IF once.raised = "ok"
                    THEN SplitPositions(once, batch, now,
                                        SelectSeq(once.m.positions_by_ticker[ticker],
                                                  LAMBDA ref : IsOpenForPass(once.m, ref)),
                                        1, split_coefficient)
                    ELSE once,
               SplitPositions(paid, batch, now,
                              SelectSeq(paid.m.positions_by_ticker[ticker],
                                        LAMBDA ref : IsOpenForPass(paid.m, ref)),
                              1, split_coefficient))
    ELSE paid

SplitTicker(paid, batch, now, ticker, split_coefficient) ==
    IF paid.raised = "ok" /\ ~RatEq(split_coefficient, FromInt(1))
    THEN SplitPositions(paid, batch, now,
                        SelectSeq(paid.m.positions_by_ticker[ticker],
                                  LAMBDA ref : IsOpenForPass(paid.m, ref)),
                        1, split_coefficient)
    ELSE paid

\* Lines 420-448: the tickers of stock_data, in the order of the fetched rows.
TickerOrder == <<"A", "B">>

RECURSIVE AdjustTickers(_, _, _, _, _)
AdjustTickers(b, batch, now, rows, i) ==
    IF i > Len(TickerOrder) \/ b.raised # "ok"
    THEN b
    ELSE IF TickerOrder[i] \notin DOMAIN rows
    THEN AdjustTickers(b, batch, now, rows, i + 1)
    ELSE Apply(LAMBDA split : AdjustTickers(split, batch, now, rows, i + 1),
               Apply(LAMBDA paid : SplitTicker(paid, batch, now, TickerOrder[i],
                                               rows[TickerOrder[i]].split_coefficient),
                     PayTicker(b, batch, now, TickerOrder[i],
                               rows[TickerOrder[i]].dividend_amount)))

ProcessAdjustments(b, batch, now, data) ==
    Apply(LAMBDA removed : AdjustTickers(removed, batch, now, data.stock_data, 1),
          IF data.removed # NoTicker /\ b.raised = "ok"
          THEN CloseRemoved(b, batch, now, b.m.positions_by_ticker[data.removed], 1,
                            data.close)
          ELSE b)

\* ------------------------------------------------------- Broker.update
\* What a day brings: the ticker spx_changes removes (if any) and the close it is
\* sold at, and the fetched rows, of which at most one carries a dividend or a split.
PlainRow == [dividend_amount |-> 0, split_coefficient |-> FromInt(1)]
DailySplitCoefficients == {<<1, 1>>, <<2, 1>>, <<1, 2>>}
DailyDividends == {0, 1}
ClosePrices == {3}

MarketData ==
    {[removed |-> removed, close |-> close,
      stock_data |-> [t \in Tickers |-> IF t = ticker
                                         THEN [dividend_amount |-> dividend_amount,
                                               split_coefficient |-> split_coefficient]
                                         ELSE PlainRow]] :
        removed \in {NoTicker} \cup Tickers, close \in ClosePrices, ticker \in Tickers,
        dividend_amount \in DailyDividends, split_coefficient \in DailySplitCoefficients}

\* Money is counted in whole units: the days modelled are those whose splits leave
\* every open position a whole adjusted price and a whole cash settlement.
WholeSplits(data) ==
    \A t \in DOMAIN data.stock_data : \A i \in 1..Len(positions_by_ticker[t]) :
        LET position == position_objects[positions_by_ticker[t][i]]
            split == StockSplit(position.quantity, position.entry_price,
                                data.stock_data[t].split_coefficient)
        IN  /\ IsWhole(split.adjusted_price)
            /\ IsWhole(split.cash_settlement_amount)

UpdateCall(gap, data, result) ==
    [op |-> "UPDATE", portfolio_id |-> 0, price |-> 0, quantity |-> NoQuantity,
     position_id |-> NoPosition, ticker |-> NoTicker, result |-> result,
     balance_before |-> [p \in Portfolios |-> portfolios[p].balance],
     gap |-> gap, data |-> data]

\* How update() ends: the broker it leaves and what its caller sees.
UpdateEnds(gap, data, now, done) ==
    /\ today' = now
    /\ portfolios' = done.m.portfolios
    /\ position_objects' = done.m.position_objects
    /\ position_by_id' = done.m.position_by_id
    /\ positions_by_ticker' = done.m.positions_by_ticker
    /\ position_table' = done.m.position_table
    /\ buy_order_queue' = done.buy_order_queue
    /\ transactions_queue' = done.transactions_queue
    /\ ledger' = done.ledger
    /\ UNCHANGED <<in_batch_mode, scope, entry, immediate>>
    /\ last' = UpdateCall(gap, data, done.raised)
    /\ nops' = nops + 1
    /\ UNCHANGED prev_purchase_date
    /\ stock_data' = DOMAIN data.stock_data
    /\ propagating' = (scope = "open" /\ done.raised # "ok")
    /\ scope_log' = IF scope = "open"
                    THEN [scope_log EXCEPT !.fatal = @ \/ Fatal(done.raised),
                                           !.only_buys = FALSE,
                                           !.calls = @ + 1]
                    ELSE scope_log

Update(gap, data) ==
    /\ nops < MaxOps
    /\ ~propagating
    /\ WholeSplits(data)
    /\ \E taxed \in {DoTheTaxes(BrokerState, in_batch_mode, today + gap, today, 1)} :
       \E done \in {ProcessAdjustments(taxed, in_batch_mode, today + gap, data)} :
            UpdateEnds(gap, data, today + gap, done)

\* ------------------------------------------------------ the strategies
\* TradingBot.update's contribution, and the orders of BuyAndHoldBot and MACDBot:
\* a buy of at least one share, a close of a position the portfolio reports open.
StrategyContribution(amount, portfolio_id) == AddContribution(amount, portfolio_id)

StrategyBuy(ticker, quantity, portfolio_id, price) ==
    /\ quantity > 0
    /\ ExecuteBuyOrder(ticker, quantity, portfolio_id, price)

StrategyClose(ref, price) ==
    /\ ref \in portfolios[position_objects[ref].portfolio_id].open_positions
    /\ ClosePosition(ref, price)

NextDaily ==
    \/ \E gap \in DayGaps, data \in MarketData : Update(gap, data)
    \/ \E p \in Portfolios, a \in Amounts : StrategyContribution(a, p)
    \/ \E p \in Portfolios, t \in Tickers, q \in Quantities, price \in BuyPrices :
            StrategyBuy(t, q, p, price)
    \/ \E ref \in Refs, price \in SellPrices : StrategyClose(ref, price)
    \/ Enter
    \/ Exit

SpecDaily == Init /\ [][NextDaily]_vars

\* C11: once a position is closed, no later step changes it: in particular the
\* dividend and split passes of an update leave every closed position as it was.
C11_ClosedPositionsImmutable ==
    [][\A ref \in Refs :
            position_objects[ref].is_closed
                => position_objects'[ref] = position_objects[ref]]_vars

\* An update that paid a dividend or split the shares of a ticker in which a
\* position had been closed on an earlier day.
C11_Witness ==
    /\ last.op = "UPDATE"
    /\ last.result = "ok"
    /\ \E ref \in Refs :
          LET position == position_objects[ref]
              row == last.data.stock_data[position.ticker]
          IN  /\ position.is_closed
              /\ position.closed_timestamp < today
              /\ row.dividend_amount > 0
              /\ ~RatEq(row.split_coefficient, FromInt(1))
              /\ position.dividends_received = 0
              /\ position.cash_settlements_received = 0

\* ======================================================================
\* A broker that already holds lots, and the backtest loop
\* ======================================================================
\* The lots bought and committed on the first day, in one `with broker:` scope.
HeldPrice == 2
HeldContributions == {9}

HeldLot(portfolio_id, ticker, quantity) ==
    [portfolio_id |-> portfolio_id, ticker |-> ticker, quantity |-> quantity]

Holdings ==
    {<< >>,
     <<HeldLot(1, "A", 3)>>,
     <<HeldLot(1, "A", 1), HeldLot(2, "A", 2)>>,
     <<HeldLot(1, "A", 2), HeldLot(1, "B", 1)>>}

\* The broker after create_portfolio for each owner.
NewBroker(contribution) ==
    [m |-> [portfolios |-> CreatePortfolios(contribution),
            position_objects |-> << >>,
            position_by_id |-> << >>,
            positions_by_ticker |-> [t \in Tickers |-> << >>],
            position_table |-> {}],
     buy_order_queue |-> << >>,
     transactions_queue |-> << >>,
     ledger |-> FirstDeposits(contribution, 1),
     raised |-> "ok"]

\* execute_buy_order for each lot, inside the scope.
RECURSIVE QueueLots(_, _, _)
QueueLots(b, lots, i) ==
    IF i > Len(lots)
    THEN b
    ELSE Apply(LAMBDA queued : QueueLots(queued, lots, i + 1),
               Transact(b, TRUE, 1, "BUY", lots[i].portfolio_id, HeldPrice,
                        lots[i].quantity, NoPosition, lots[i].ticker))

\* The scope's commit.
CommitLots(b) ==
    Materialise([raised |-> "ok", m |-> b.m, transactions_queue |-> b.transactions_queue,
                 inserted |-> {}],
                b.buy_order_queue, 1, NextRowId(b.m.position_table))

InitHeld ==
    \E contribution \in [Portfolios -> HeldContributions], lots \in Holdings :
    \E b \in {QueueLots(NewBroker(contribution), lots, 1)} :
    \E c \in {CommitLots(b)} :
        /\ today = 1
        /\ portfolios = c.m.portfolios
        /\ position_objects = c.m.position_objects
        /\ position_by_id = c.m.position_by_id
        /\ positions_by_ticker = c.m.positions_by_ticker
        /\ buy_order_queue = b.buy_order_queue
        /\ transactions_queue = c.transactions_queue
        /\ in_batch_mode = FALSE
        /\ position_table = c.m.position_table \cup c.inserted
        /\ ledger = b.ledger \o c.transactions_queue
        /\ scope = "idle"
        /\ propagating = FALSE
        /\ last = Call("INIT", 0, 0, NoQuantity, NoPosition, NoTicker, c.raised)
        /\ nops = 0
        /\ prev_purchase_date = NoPurchase
        /\ stock_data = Tickers
        /\ entry = Snapshot
        /\ scope_log = [fatal |-> FALSE, only_buys |-> TRUE, calls |-> 0]
        /\ immediate = [m |-> Memory, same_rejections |-> TRUE]

\* ---------------------------------------------------- demo/backtest.py
\* The bot trades for the one portfolio created for it.
BotPortfolio == 1

\* Line 25: the loop goes on to the next date unless the last day's body or its
\* commit raised.
NextDate ==
    /\ scope = "idle"
    /\ last.op \in {"INIT", "EXIT"}
    /\ last.result = "ok"
    /\ ~scope_log.fatal

\* Lines 27-28: broker.update(today) comes first in the scope, bot.update after it.
AnywhereInScope == scope = "open"
ScopeJustEntered == scope = "open" /\ last.op = "ENTER"
UpdateReturned == scope = "open" /\ last.op # "ENTER"

BacktestEnter == NextDate /\ Enter

BacktestUpdate(gap, data) == ScopeJustEntered /\ Update(gap, data)

\* TradingBot.update: the contribution comes before the bot's orders.
BotContribution(amount) ==
    /\ UpdateReturned
    /\ last.op = "UPDATE"
    /\ StrategyContribution(amount, BotPortfolio)

BotBuy(ticker, quantity, price) ==
    /\ UpdateReturned
    /\ StrategyBuy(ticker, quantity, BotPortfolio, price)

BotClose(ref, price) ==
    /\ UpdateReturned
    /\ position_objects[ref].portfolio_id = BotPortfolio
    /\ StrategyClose(ref, price)

\* Line 26: the scope is left when its body has run, or when a call in it raised.
BacktestExit == UpdateReturned /\ Exit

NextBacktest ==
    \/ BacktestEnter
    \/ \E gap \in DayGaps, data \in MarketData : BacktestUpdate(gap, data)
    \/ \E a \in Amounts : BotContribution(a)
    \/ \E t \in Tickers, q \in Quantities, price \in BuyPrices : BotBuy(t, q, price)
    \/ \E ref \in Refs, price \in SellPrices : BotClose(ref, price)
    \/ BacktestExit

SpecBacktest == InitHeld /\ [][NextBacktest]_vars

IsUpdate == nops' = nops + 1 /\ last'.op = "UPDATE"
IsEnter == scope = "idle" /\ scope' = "open"
StrategyOps == {"DEPOSIT", "BUY", "SELL"}

\* Nothing of the day's dividends, splits and removals is left to do: every position
\* still open is in a ticker that neither split nor was removed today, and has its
\* DIVIDEND transaction of today if its ticker paid one.
Processed(data) ==
    \A ref \in Refs :
        LET position == position_objects[ref]
            row == data.stock_data[position.ticker]
        IN  ~position.is_closed =>
                /\ RatEq(row.split_coefficient, FromInt(1))
                /\ data.removed # position.ticker
                /\ row.dividend_amount > 0 =>
                        \E i \in 1..Len(transactions_queue) :
                            /\ transactions_queue[i].type = "DIVIDEND"
                            /\ transactions_queue[i].position_id = position.id
                            /\ transactions_queue[i].timestamp = today

\* ----------------------------------------------------------------- C21
\* C21 (daily ordering): in the backtest loop the day's update, with its dividends
\* and splits, has returned before any strategy call of the day is made; the commit
\* of the scope comes after the day's calls and writes everything they queued; and
\* the next day's scope and update begin only after that commit, with empty queues.
C21_DailyOrdering ==
    [][ /\ IsCall(StrategyOps) =>
                /\ scope = "open"
                /\ last.op \in {"UPDATE"} \cup StrategyOps
                /\ (last.op = "UPDATE" /\ last.result = "ok") => Processed(last.data)
        /\ IsUpdate =>
                /\ last.op = "ENTER"
                /\ buy_order_queue = << >>
                /\ transactions_queue = << >>
        /\ IsExit =>
                /\ last.op \in {"UPDATE"} \cup StrategyOps
                /\ last'.result = "ok" =>
                        Len(ledger') = Len(ledger) + Len(transactions_queue)
                                            + Len(buy_order_queue)
        /\ IsEnter =>
                /\ last.op \in {"INIT", "EXIT"}
                /\ \A i \in 1..Len(transactions_queue) :
                        \E j \in 1..Len(ledger) : ledger[j] = transactions_queue[i]
      ]_vars

\* A strategy order queued in the scope after the day's update paid a dividend.
C21_Witness ==
    /\ scope = "open"
    /\ last.op = "BUY"
    /\ last.result = "ok"
    /\ Len(buy_order_queue) > 0
    /\ \E i \in 1..Len(transactions_queue) :
            /\ transactions_queue[i].type = "DIVIDEND"
            /\ transactions_queue[i].timestamp = today

\* ======================================================================
\* TaxReport._calculate_tax called on its own
\* ======================================================================
\* Bracket tables map a threshold to a rate; rates are in percent, so that the tax
\* returned is in hundredths of the unit the income is in.
BracketThresholds == {0, 2, 5}
BracketRates == {0, 10, 25}
NetIncomes == (0 - 2)..7

RECURSIVE Union(_)
Union(sets) ==
    IF sets = {}
    THEN {}
    ELSE LET one == CHOOSE x \in sets : TRUE
         IN  one \cup Union(sets \ {one})

TaxTables == Union({[thresholds -> BracketRates] : thresholds \in SUBSET BracketThresholds})

\* sorted(tax_brackets.keys(), reverse=True), each threshold with its rate.
RECURSIVE SortedBrackets(_)
SortedBrackets(tax_brackets) ==
    IF DOMAIN tax_brackets = {}
    THEN << >>
    ELSE LET threshold == Max(DOMAIN tax_brackets)
         IN  <<[threshold |-> threshold, rate |-> tax_brackets[threshold]]>>
                \o SortedBrackets([t \in DOMAIN tax_brackets \ {threshold} |->
                                        tax_brackets[t]])

\* The two dictionaries of _calculate_tax, from bracket i on: an assignment to
\* by_rate[rate] replaces what an earlier bracket of the same rate put there.
Assigned(by_rate, rate, value) ==
    [r \in DOMAIN by_rate \cup {rate} |-> IF r = rate THEN value ELSE by_rate[r]]

RECURSIVE AmountsByRate(_, _, _, _)
AmountsByRate(residual_amount, tax_brackets, i, by_rate) ==
    IF i > Len(tax_brackets)
    THEN by_rate
    ELSE LET threshold == tax_brackets[i].threshold
             rate == tax_brackets[i].rate
             taxable_amount == residual_amount - threshold
         IN  IF residual_amount >= threshold
             THEN AmountsByRate(residual_amount - taxable_amount, tax_brackets, i + 1,
                    [taxable_amounts_by_rate |->
                        Assigned(by_rate.taxable_amounts_by_rate, rate, taxable_amount),
                     payable_tax_by_rate |->
                        Assigned(by_rate.payable_tax_by_rate, rate, rate * taxable_amount)])
             ELSE AmountsByRate(residual_amount, tax_brackets, i + 1,
                    [taxable_amounts_by_rate |->
                        Assigned(by_rate.taxable_amounts_by_rate, rate, 0),
                     payable_tax_by_rate |->
                        Assigned(by_rate.payable_tax_by_rate, rate, 0)])

calculate_tax(net_income) ==
    /\ nops < MaxOps
    /\ last' = [op |-> "_calculate_tax",
                tax_brackets |-> last.tax_brackets,
                net_income |-> net_income,
                returned |-> CalculateTax(net_income, SortedBrackets(last.tax_brackets), 1),
                by_rate |-> AmountsByRate(net_income, SortedBrackets(last.tax_brackets), 1,
                                          [taxable_amounts_by_rate |-> << >>,
                                           payable_tax_by_rate |-> << >>])]
    /\ nops' = nops + 1
    /\ UNCHANGED prev_purchase_date
    /\ UNCHANGED stock_data
    /\ UNCHANGED <<broker_vars, db_vars, scope, propagating, entry, scope_log, immediate>>

InitTax ==
    \E tax_brackets \in TaxTables :
        /\ today = 1
        /\ portfolios = CreatePortfolios([p \in Portfolios |-> 0])
        /\ position_objects = << >>
        /\ position_by_id = << >>
        /\ positions_by_ticker = [t \in Tickers |-> << >>]
        /\ buy_order_queue = << >>
        /\ transactions_queue = << >>
        /\ in_batch_mode = FALSE
        /\ position_table = {}
        /\ ledger = << >>
        /\ scope = "idle"
        /\ propagating = FALSE
        /\ last = [op |-> "table", tax_brackets |-> tax_brackets, net_income |-> 0,
                   returned |-> 0]
        /\ nops = 0
        /\ prev_purchase_date = NoPurchase
        /\ stock_data = Tickers
        /\ entry = Snapshot
        /\ scope_log = [fatal |-> FALSE, only_buys |-> TRUE, calls |-> 0]
        /\ immediate = [m |-> Memory, same_rejections |-> TRUE]

NextTax == \E net_income \in NetIncomes : calculate_tax(net_income)

SpecTax == InitTax /\ [][NextTax]_vars

TaxOf(tax_brackets, net_income) ==
    CalculateTax(net_income, SortedBrackets(tax_brackets), 1)

\* ----------------------------------------------------------------- C22
\* C22 (bracket monotonicity): for one bracket table with rates >= 0, a smaller
\* net gain is never taxed more than a larger one: g1 < g2 implies
\* tax(g1) <= tax(g2).
C22_TaxMonotone ==
    last.op = "_calculate_tax" =>
        \A g1 \in NetIncomes :
            g1 < last.net_income => TaxOf(last.tax_brackets, g1) <= last.returned

\* A gain taxed in two brackets, above a smaller gain that is taxed less.
C22_Witness ==
    /\ last.op = "_calculate_tax"
    /\ \E low, high \in DOMAIN last.tax_brackets :
            /\ low < high
            /\ high < last.net_income
            /\ last.tax_brackets[low] > last.tax_brackets[high]
            /\ last.tax_brackets[high] > 0
    /\ \E g1 \in NetIncomes :
            /\ g1 < last.net_income
            /\ 0 < TaxOf(last.tax_brackets, g1)
            /\ TaxOf(last.tax_brackets, g1) < last.returned

\* ----------------------------------------------------------------- C23
IsPrefix(before, after) ==
    /\ Len(before) <= Len(after)
    /\ SubSeq(after, 1, Len(before)) = before

\* C23 (append-only ledger): no operation and no commit, failed or not, changes or
\* removes a committed row: the ledger before a step is a prefix of the ledger
\* after it.
C23_LedgerAppendOnly == [][IsPrefix(ledger, ledger')]_vars

\* A commit that appended the scope's rows after the rows committed before it.
C23_Witness ==
    /\ last.op = "EXIT"
    /\ last.result = "ok"
    /\ Len(entry.ledger) > 0
    /\ Len(ledger) > Len(entry.ledger) + 1
    /\ IsPrefix(entry.ledger, ledger)

\* ----------------------------------------------------------------- C24
PositionSets(portfolio) ==
    /\ portfolio.open_positions \cap portfolio.closed_positions = {}
    /\ portfolio.open_positions \cup portfolio.closed_positions = portfolio.positions
    /\ \A ref \in portfolio.positions :
            ref \in portfolio.closed_positions <=> position_objects[ref].is_closed
    /\ \A t \in Tickers :
            portfolio.open_positions_by_ticker[t]
                = {ref \in portfolio.open_positions : position_objects[ref].ticker = t}
    /\ \A ref \in portfolio.closed_positions :
            /\ position_objects[ref].closed_timestamp # NoTimestamp
            /\ position_objects[ref].exit_price >= 0

\* C24 (position sets): in every portfolio open_positions and closed_positions are
\* disjoint and together make up positions, a position is in closed_positions
\* exactly when its closed flag is set, open_positions_by_ticker groups exactly the
\* open positions by ticker, and every closed position has its exit price and exit
\* timestamp.
C24_PositionSets == \A p \in Portfolios : PositionSets(portfolios[p])

\* A portfolio with a closed position and an open one in the same ticker.
C24_Witness ==
    \E p \in Portfolios, t \in Tickers :
        /\ \E ref \in portfolios[p].closed_positions : position_objects[ref].ticker = t
        /\ portfolios[p].open_positions_by_ticker[t] # {}

\* ------------------------------------------------- an update, observed
\* The transactions a step recorded: queued inside batch mode, inserted outside it.
NewRows ==
    IF in_batch_mode
    THEN SubSeq(transactions_queue', Len(transactions_queue) + 1, Len(transactions_queue'))
    ELSE SubSeq(ledger', Len(ledger) + 1, Len(ledger'))

\* The buy orders a step queued.
NewOrders == SubSeq(buy_order_queue', Len(buy_order_queue) + 1, Len(buy_order_queue'))

\* The Position objects a step created.
NewRefs == (Len(position_objects) + 1)..Len(position_objects')

RowsWhere(rows, Test(_)) == {i \in 1..Len(rows) : Test(rows[i])}

\* The split of the day for a position, and whether the split pass works on it:
\* the position is open when the pass starts, in a ticker whose coefficient is not 1.
SplitOfDay(ref, data) ==
    StockSplit(position_objects[ref].quantity, position_objects[ref].entry_price,
               data.stock_data[position_objects[ref].ticker].split_coefficient)

InSplitPass(ref, data) ==
    /\ ~position_objects[ref].is_closed
    /\ data.removed # position_objects[ref].ticker
    /\ ~RatEq(data.stock_data[position_objects[ref].ticker].split_coefficient, FromInt(1))

\* A day on which nothing but the split of `ref` touches its portfolio's balance.
OnlySplitOf(ref, data) ==
    /\ portfolios[position_objects[ref].portfolio_id].open_positions = {ref}
    /\ portfolios[position_objects[ref].portfolio_id].taxes_owing = 0
    /\ Year(today') = Year(today)
    /\ \A t \in Tickers : data.stock_data[t].dividend_amount = 0

\* ----------------------------------------------------------------- C25
\* C25 (fractional share credited once): when an update splits an open lot and at
\* least one whole share is left, with a cash settlement s > 0 for the fraction,
\* the lot's cash_settlements_received grows by s, exactly one CASH_SETTLEMENT
\* transaction of amount s is recorded for it, and the portfolio's balance after
\* the lot is closed and its replacement paid for is greater by exactly s.
C25_SplitCreditsOnce ==
    [][ (IsUpdate /\ last'.result = "ok") =>
            \A ref \in Refs :
                LET position == position_objects[ref]
                    split == SplitOfDay(ref, last'.data)
                    s == Whole(split.cash_settlement_amount)
                IN  (InSplitPass(ref, last'.data) /\ split.whole_shares >= 1 /\ s > 0) =>
                        /\ position_objects'[ref].cash_settlements_received
                                = position.cash_settlements_received + s
                        /\ Cardinality(RowsWhere(NewRows,
                                LAMBDA row : /\ row.type = "CASH_SETTLEMENT"
                                             /\ row.position_id = position.id
                                             /\ row.quantity * row.price = s)) = 1
                        /\ OnlySplitOf(ref, last'.data) =>
                                portfolios'[position.portfolio_id].balance
                                    = portfolios[position.portfolio_id].balance + s
      ]_vars

\* ----------------------------------------------------------------- C26
\* What replaces a lot: its portfolio and ticker, the whole shares, the adjusted price.
Replacement(portfolio_id, ticker, quantity, price) ==
    [portfolio_id |-> portfolio_id, ticker |-> ticker, quantity |-> quantity,
     price |-> price]

ReplacementDue(ref, data) ==
    Replacement(position_objects[ref].portfolio_id, position_objects[ref].ticker,
                SplitOfDay(ref, data).whole_shares,
                Whole(SplitOfDay(ref, data).adjusted_price))

LotsToReplace(data) ==
    {ref \in Refs : InSplitPass(ref, data) /\ SplitOfDay(ref, data).whole_shares >= 1}

\* The lots the step opened (outside batch mode) or queued (inside it) like `r`.
ReplacementsMade(r) ==
    IF in_batch_mode
    THEN Cardinality({i \in 1..Len(NewOrders) :
            /\ Replacement(NewOrders[i].portfolio_id, NewOrders[i].ticker,
                           NewOrders[i].quantity, NewOrders[i].price) = r
            /\ NewOrders[i].timestamp = today'})
    ELSE Cardinality({ref \in NewRefs :
            /\ Replacement(position_objects'[ref].portfolio_id,
                           position_objects'[ref].ticker, position_objects'[ref].quantity,
                           position_objects'[ref].entry_price) = r
            /\ position_objects'[ref].opened_timestamp = today'
            /\ ref \in portfolios'[r.portfolio_id].open_positions})

ReplacementsSeen ==
    {Replacement(NewOrders[i].portfolio_id, NewOrders[i].ticker, NewOrders[i].quantity,
                 NewOrders[i].price) : i \in 1..Len(NewOrders)}
        \cup {Replacement(position_objects'[ref].portfolio_id,
                          position_objects'[ref].ticker, position_objects'[ref].quantity,
                          position_objects'[ref].entry_price) : ref \in NewRefs}

\* C26 (split pass outcome): an update closes every position that is open in a
\* ticker whose split coefficient is not 1: at price 0 and without replacement when
\* less than one whole share is left, otherwise at its entry price, and then it
\* opens (or, in batch mode, queues) exactly one lot of the whole shares at the
\* adjusted price entry_price / coefficient for the same portfolio and ticker.
C26_SplitPassOutcome ==
    [][ (IsUpdate /\ last'.result = "ok") =>
            /\ \A ref \in Refs :
                    InSplitPass(ref, last'.data) =>
                        /\ position_objects'[ref].is_closed
                        /\ position_objects'[ref].closed_timestamp = today'
                        /\ position_objects'[ref].exit_price
                                = IF SplitOfDay(ref, last'.data).whole_shares < 1
                                  THEN 0
                                  ELSE position_objects[ref].entry_price
            /\ \A r \in ReplacementsSeen
                        \cup {ReplacementDue(ref, last'.data) :
                                    ref \in LotsToReplace(last'.data)} :
                    ReplacementsMade(r)
                        = Cardinality({ref \in LotsToReplace(last'.data) :
                                            ReplacementDue(ref, last'.data) = r})
      ]_vars

\* An update inside a scope that closed a lot at its entry price and queued its
\* replacement at a different, split-adjusted price.
C26_Witness ==
    /\ last.op = "UPDATE"
    /\ last.result = "ok"
    /\ \E ref \in Refs :
          LET position == position_objects[ref]
              c == last.data.stock_data[position.ticker].split_coefficient
              split == StockSplit(position.quantity, position.entry_price, c)
          IN  /\ position.is_closed
              /\ position.closed_timestamp = today
              /\ ~RatEq(c, FromInt(1))
              /\ split.whole_shares >= 1
              /\ position.exit_price = position.entry_price
              /\ scope = "open"
              /\ \E i \in 1..Len(buy_order_queue) :
                    /\ buy_order_queue[i].timestamp = today
                    /\ buy_order_queue[i].quantity = split.whole_shares
                    /\ buy_order_queue[i].price = Whole(split.adjusted_price)
                    /\ buy_order_queue[i].price # position.entry_price

\* ----------------------------------------------------------------- C27
\* A position as Position.__init__ leaves it: open, nothing received, never adjusted.
Untouched(position) ==
    position = NewPosition(position.portfolio_id, position.ticker, position.entry_price,
                           position.quantity, position.opened_timestamp, position.id)

\* C27 (each lot split at most once per split day): an update records at most one
\* SELL and at most one CASH_SETTLEMENT for a position, and makes one replacement
\* (a new lot outside batch mode, a queued order inside it) per lot that keeps a
\* whole share and no more; a replacement lot is left as it was opened, with no
\* transaction but its BUY, and the lots a commit opens from the queued orders
\* are the orders as they were queued.
C27_SplitOncePerDay ==
    [][ /\ (IsUpdate /\ last'.result = "ok") =>
            /\ \A ref \in Refs :
                    /\ Cardinality(RowsWhere(NewRows, LAMBDA row :
                            row.type = "SELL" /\ row.position_id = position_objects[ref].id)) <= 1
                    /\ Cardinality(RowsWhere(NewRows, LAMBDA row :
                            row.type = "CASH_SETTLEMENT"
                                /\ row.position_id = position_objects[ref].id)) <= 1
            /\ Cardinality(NewRefs) + Len(NewOrders)
                    = Cardinality(LotsToReplace(last'.data))
            /\ \A ref \in NewRefs :
                    /\ Untouched(position_objects'[ref])
                    /\ position_objects'[ref].opened_timestamp = today'
                    /\ ref \in portfolios'[position_objects'[ref].portfolio_id].open_positions
                    /\ \A i \in 1..Len(NewRows) :
                            NewRows[i].position_id = position_objects'[ref].id
                                => NewRows[i].type = "BUY"
        /\ (IsExit /\ last'.result = "ok") =>
            /\ Cardinality(NewRefs) = Len(buy_order_queue)
            /\ \A ref \in NewRefs :
                    /\ Untouched(position_objects'[ref])
                    /\ \E i \in 1..Len(buy_order_queue) :
                          /\ buy_order_queue[i].portfolio_id = position_objects'[ref].portfolio_id
                          /\ buy_order_queue[i].ticker = position_objects'[ref].ticker
                          /\ buy_order_queue[i].quantity = position_objects'[ref].quantity
                          /\ buy_order_queue[i].price = position_objects'[ref].entry_price
                          /\ buy_order_queue[i].timestamp
                                = position_objects'[ref].opened_timestamp
      ]_vars

\* An update outside a scope has just replaced a split lot: the replacement is in
\* the list of its ticker, open, in a ticker whose coefficient of the day is not 1.
C27_Witness ==
    /\ last.op = "UPDATE"
    /\ last.result = "ok"
    /\ ~in_batch_mode
    /\ \E old \in Refs, new \in Refs :
          /\ position_objects[old].is_closed
          /\ position_objects[old].closed_timestamp = today
          /\ position_objects[old].exit_price = position_objects[old].entry_price
          /\ position_objects[new].ticker = position_objects[old].ticker
          /\ position_objects[new].opened_timestamp = today
          /\ Untouched(position_objects[new])
          /\ \E i \in 1..Len(positions_by_ticker[position_objects[new].ticker]) :
                positions_by_ticker[position_objects[new].ticker][i] = new
          /\ ~RatEq(last.data.stock_data[position_objects[new].ticker].split_coefficient,
                    FromInt(1))

\* ----------------------------------------------------------------- C28
\* The dividend of the day for a position, and whether the dividend pass pays it:
\* the position is open when the pass reaches its ticker and the amount is positive.
DividendOfDay(ref, data) == data.stock_data[position_objects[ref].ticker].dividend_amount

InDividendPass(ref, data) ==
    /\ ~position_objects[ref].is_closed
    /\ data.removed # position_objects[ref].ticker
    /\ DividendOfDay(ref, data) > 0

RECURSIVE DividendsDue(_, _)
DividendsDue(refs, data) ==
    IF refs = {}
    THEN 0
    ELSE LET ref == CHOOSE r \in refs : TRUE
         IN  (IF InDividendPass(ref, data)
              THEN position_objects[ref].quantity * DividendOfDay(ref, data)
              ELSE 0) + DividendsDue(refs \ {ref}, data)

\* A day on which nothing but dividends touches the balance of the portfolio: no
\* tax is due and none of its open lots is split or closed for a removed ticker.
OnlyDividendsFor(portfolio_id, data) ==
    /\ Year(today') = Year(today)
    /\ portfolios[portfolio_id].taxes_owing = 0
    /\ \A ref \in portfolios[portfolio_id].open_positions :
            ~InSplitPass(ref, data) /\ data.removed # position_objects[ref].ticker

\* C28 (dividend pass): an update pays every position that is open in a ticker
\* with a dividend amount d > 0 exactly once: dividends_received grows by
\* quantity * d and exactly one DIVIDEND row (quantity, d) is recorded for it;
\* any other position keeps its dividends_received and gets no DIVIDEND row; and
\* on a day that moves a portfolio's balance by dividends only, the balance grows
\* by the sum of quantity * d over its paid positions, so that a portfolio
\* without a paid position keeps its balance.
C28_DividendPass ==
    [][ (IsUpdate /\ last'.result = "ok") =>
            /\ \A ref \in Refs :
                    LET position == position_objects[ref]
                        d == DividendOfDay(ref, last'.data)
                        rows == RowsWhere(NewRows, LAMBDA row :
                                    row.type = "DIVIDEND" /\ row.position_id = position.id)
                    IN  IF InDividendPass(ref, last'.data)
                        THEN /\ position_objects'[ref].dividends_received
                                    = position.dividends_received + position.quantity * d
                             /\ Cardinality(rows) = 1
                             /\ \A i \in rows :
                                    /\ NewRows[i].quantity = position.quantity
                                    /\ NewRows[i].price = d
                                    /\ NewRows[i].portfolio_id = position.portfolio_id
                                    /\ NewRows[i].timestamp = today'
                        ELSE /\ position_objects'[ref].dividends_received
                                    = position.dividends_received
                             /\ rows = {}
            /\ \A ref \in NewRefs : position_objects'[ref].dividends_received = 0
            /\ \A p \in Portfolios :
                    OnlyDividendsFor(p, last'.data) =>
                        portfolios'[p].balance
                            = portfolios[p].balance
                                + DividendsDue(portfolios[p].open_positions, last'.data)
      ]_vars

\* An update paid a lot of two shares, on a day on which a closed position of the
\* same ticker was left alone.
C28_Witness ==
    /\ last.op = "UPDATE"
    /\ last.result = "ok"
    /\ \E paid \in Refs, closed \in Refs :
          /\ position_objects[paid].quantity = 2
          /\ ~position_objects[paid].is_closed
          /\ last.data.stock_data[position_objects[paid].ticker].dividend_amount > 0
          /\ position_objects[paid].dividends_received
                = 2 * last.data.stock_data[position_objects[paid].ticker].dividend_amount
          /\ position_objects[paid].opened_timestamp < today
          /\ position_objects[closed].is_closed
          /\ position_objects[closed].closed_timestamp < today
          /\ position_objects[closed].ticker = position_objects[paid].ticker
          /\ position_objects[closed].dividends_received = 0

\* ----------------------------------------------------------------- C29
\* C29 (step order inside update): the clock is advanced first, so every
\* transaction of the update carries the new day, and the tax pass runs after the
\* day's dividends and splits: among the transactions an update records, no TAX
\* row comes before a row of the dividend or split pass.
C29_TaxesAfterAdjustments ==
    [][ (IsUpdate /\ last'.result = "ok") =>
            /\ today' > today
            /\ \A i \in 1..Len(NewRows) : NewRows[i].timestamp = today'
            /\ \A i \in 1..Len(NewRows), j \in 1..Len(NewRows) :
                    (i < j /\ NewRows[i].type = "TAX") => NewRows[j].type = "TAX"
      ]_vars

\* ----------------------------------------------------------------- C30
\* The TAX transactions a step recorded for a portfolio.
TaxRowsFor(portfolio_id) ==
    RowsWhere(NewRows, LAMBDA row : row.type = "TAX" /\ row.portfolio_id = portfolio_id)

\* What a deduction asked for: the amount paid plus the liability it left.
Requested(portfolio_id, i) == NewRows[i].price + portfolios'[portfolio_id].taxes_owing

\* C30 (annual tax pass): an update whose day is in a later year than the day
\* before makes exactly one tax deduction for every portfolio, asking for the
\* total tax of the report for the year before plus the liability outstanding;
\* an update on any other day makes no such deduction: a portfolio owing nothing
\* gets no TAX transaction and one owing something is asked for what it owes and
\* nothing more.
C30_AnnualTaxPass ==
    [][ (IsUpdate /\ last'.result = "ok") =>
            \A p \in Portfolios :
                /\ Cardinality(TaxRowsFor(p)) <= 1
                /\ \A i \in TaxRowsFor(p) :
                        /\ NewRows[i].timestamp = today'
                        /\ portfolios'[p].taxes_paid = portfolios[p].taxes_paid + NewRows[i].price
                /\ IF Year(today') > Year(today)
                   THEN /\ Cardinality(TaxRowsFor(p)) = 1
                        /\ \A i \in TaxRowsFor(p) :
                                Requested(p, i)
                                    = TaxReport(BrokerState.m, ledger, p, today').total_tax
                                        + portfolios[p].taxes_owing
                   ELSE /\ portfolios[p].taxes_owing = 0 => TaxRowsFor(p) = {}
                        /\ \A i \in TaxRowsFor(p) : Requested(p, i) = portfolios[p].taxes_owing
                        /\ TaxRowsFor(p) = {} =>
                                /\ portfolios'[p].taxes_owing = portfolios[p].taxes_owing
                                /\ portfolios'[p].taxes_paid = portfolios[p].taxes_paid
      ]_vars

\* The first update of a new year has taxed the gain a portfolio realised the year
\* before, and the other portfolio, which had none, got its own deduction of 0.
C30_Witness ==
    /\ last.op = "UPDATE"
    /\ last.result = "ok"
    /\ Year(today) > Year(today - last.gap)
    /\ \E i \in 1..Len(ledger), j \in 1..Len(ledger) :
          /\ ledger[i].type = "TAX"
          /\ ledger[i].timestamp = today
          /\ ledger[i].price > 0
          /\ portfolios[ledger[i].portfolio_id].taxes_paid = ledger[i].price
          /\ ledger[j].type = "TAX"
          /\ ledger[j].timestamp = today
          /\ ledger[j].portfolio_id # ledger[i].portfolio_id
          /\ ledger[j].price = 0

\* ------------------------------------------- a liability carried forward
\* The first year of portfolio 1, traded outside any scope: a share of A bought at
\* OwingBuyPrice on day 1 and sold at `sell_price` on day 2, the proceeds put into
\* `quantity` shares of A, and the first update of the next year, whose tax pass
\* finds less cash than the tax on the gain.
OwingBuyPrice == 2
OwingRollover == DaysPerYear + 1

FirstYear(sell_price, quantity) == [sell_price |-> sell_price, quantity |-> quantity]

FirstYears == {FirstYear(5, 3), FirstYear(5, 2), FirstYear(8, 4)}

TradedFirstYear(year) ==
    Transact(Transact(Transact(NewBroker([p \in Portfolios |-> 3]),
                               FALSE, 1, "BUY", 1, OwingBuyPrice, 1, NoPosition, "A"),
                      FALSE, 2, "SELL", 1, year.sell_price, NoQuantity, 1, NoTicker),
             FALSE, 2, "BUY", 1, OwingBuyPrice, year.quantity, NoPosition, "A")

InitOwing ==
    \E year \in FirstYears :
    \E b \in {TradedFirstYear(year)} :
    \E taxed \in {DoTheTaxes(b, FALSE, OwingRollover, 2, 1)} :
        /\ today = OwingRollover
        /\ portfolios = taxed.m.portfolios
        /\ position_objects = taxed.m.position_objects
        /\ position_by_id = taxed.m.position_by_id
        /\ positions_by_ticker = taxed.m.positions_by_ticker
        /\ buy_order_queue = << >>
        /\ transactions_queue = << >>
        /\ in_batch_mode = FALSE
        /\ position_table = taxed.m.position_table
        /\ ledger = taxed.ledger
        /\ scope = "idle"
        /\ propagating = FALSE
        /\ last = Call("INIT", 0, 0, NoQuantity, NoPosition, NoTicker, taxed.raised)
        /\ nops = 0
        /\ prev_purchase_date = NoPurchase
        /\ stock_data = Tickers
        /\ entry = Snapshot
        /\ scope_log = [fatal |-> FALSE, only_buys |-> TRUE, calls |-> 0]
        /\ immediate = [m |-> Memory, same_rejections |-> TRUE]

\* The lot still held is sold at a loss or at a gain.
OwingSellPrices == {1, 3}

\* Days with dividends at most: no ticker is split or taken off the index.
QuietDays ==
    {data \in MarketData :
        /\ data.removed = NoTicker
        /\ \A t \in Tickers : RatEq(data.stock_data[t].split_coefficient, FromInt(1))}

\* The days that follow: updates, contributions and sales, inside and outside a scope.
NextOwing ==
    \/ \E gap \in DayGaps, data \in QuietDays : Update(gap, data)
    \/ \E p \in Portfolios, a \in Amounts : StrategyContribution(a, p)
    \/ \E ref \in Refs, price \in OwingSellPrices : StrategyClose(ref, price)
    \/ Enter
    \/ Exit

SpecOwing == InitOwing /\ [][NextOwing]_vars

\* ----------------------------------------------------------------- C31
\* What the tax pass of a step took from a portfolio.
TaxPaid(portfolio_id) == SumAmounts(NewRows, TaxRowsFor(portfolio_id))

\* The part of C31 about the days that are not the first of a year: every
\* portfolio with taxes_owing > 0 and balance > 0 pays min(balance, taxes_owing),
\* no other portfolio pays, and taxes_owing goes down by exactly what was paid.
CollectedWhenOwing ==
    [][ (IsUpdate /\ last'.result = "ok" /\ Year(today') = Year(today)) =>
            \A p \in Portfolios :
                /\ IF portfolios[p].taxes_owing > 0 /\ portfolios[p].balance > 0
                   THEN /\ Cardinality(TaxRowsFor(p)) = 1
                        /\ TaxPaid(p) = Min(portfolios[p].balance, portfolios[p].taxes_owing)
                        /\ TaxPaid(p) > 0
                   ELSE TaxRowsFor(p) = {}
                /\ portfolios'[p].taxes_owing = portfolios[p].taxes_owing - TaxPaid(p)
                /\ portfolios'[p].taxes_paid = portfolios[p].taxes_paid + TaxPaid(p)
      ]_vars

\* The part of C31 about the state right after the tax pass of any day: no
\* portfolio has both taxes_owing > 0 and cash left.
NothingOwedWithCash ==
    [][ (IsUpdate /\ last'.result = "ok") =>
            \A p \in Portfolios :
                ~(portfolios'[p].taxes_owing > 0 /\ portfolios[p].balance - TaxPaid(p) > 0)
      ]_vars

\* C31 (outstanding tax collected opportunistically): an update on a day that is
\* not the first of a year makes every portfolio with taxes_owing > 0 and
\* balance > 0 pay min(balance, taxes_owing); right after the tax pass of any day
\* no portfolio has both taxes_owing > 0 and cash left; and whenever taxes_owing
\* goes down, on any day and by any call, at least that much tax was paid.
C31_OpportunisticCollection ==
    [][ /\ (IsUpdate /\ last'.result = "ok") =>
            \A p \in Portfolios :
                /\ ~(portfolios'[p].taxes_owing > 0 /\ portfolios[p].balance - TaxPaid(p) > 0)
                /\ (Year(today') = Year(today)
                        /\ portfolios[p].taxes_owing > 0 /\ portfolios[p].balance > 0) =>
                    /\ Cardinality(TaxRowsFor(p)) = 1
                    /\ TaxPaid(p) = Min(portfolios[p].balance, portfolios[p].taxes_owing)
        /\ \A p \in Portfolios :
                portfolios'[p].taxes_owing < portfolios[p].taxes_owing =>
                    /\ IsUpdate
                    /\ TaxPaid(p) >= portfolios[p].taxes_owing - portfolios'[p].taxes_owing
      ]_vars

\* ----------------------------------------------------------------- C32
\* quantity * price of a ledger row, counted for or against the balance.
Credits == {"DEPOSIT", "SELL", "DIVIDEND", "CASH_SETTLEMENT"}
Debits == {"WITHDRAWAL", "BUY", "TAX"}

Signed(row) ==
    IF row.type \in Credits
    THEN row.quantity * row.price
    ELSE 0 - row.quantity * row.price

RECURSIVE SignedSum(_, _, _)
SignedSum(rows, portfolio_id, i) ==
    IF i > Len(rows)
    THEN 0
    ELSE (IF rows[i].portfolio_id = portfolio_id THEN Signed(rows[i]) ELSE 0)
            + SignedSum(rows, portfolio_id, i + 1)

RECURSIVE DepositSum(_, _, _)
DepositSum(rows, portfolio_id, i) ==
    IF i > Len(rows)
    THEN 0
    ELSE (IF rows[i].portfolio_id = portfolio_id /\ rows[i].type = "DEPOSIT"
          THEN rows[i].quantity * rows[i].price
          ELSE 0) + DepositSum(rows, portfolio_id, i + 1)

RECURSIVE QueuedCost(_, _, _)
QueuedCost(orders, portfolio_id, i) ==
    IF i > Len(orders)
    THEN 0
    ELSE (IF orders[i].portfolio_id = portfolio_id
          THEN orders[i].quantity * orders[i].price
          ELSE 0) + QueuedCost(orders, portfolio_id, i + 1)

\* C32 (the balance is a view of the ledger): outside a batch scope each
\* portfolio's balance is the signed sum of quantity * price over its committed
\* ledger rows and its contribution is the sum of its DEPOSIT rows; inside a
\* scope the balance is that sum over the committed and the queued rows, less the
\* cost of the buy orders still queued.
C32_BalanceIsLedgerView ==
    \A p \in Portfolios :
        IF scope = "idle"
        THEN /\ portfolios[p].balance = SignedSum(ledger, p, 1)
             /\ portfolios[p].contribution = DepositSum(ledger, p, 1)
        ELSE portfolios[p].balance
                = SignedSum(ledger \o transactions_queue, p, 1)
                    - QueuedCost(buy_order_queue, p, 1)

\* ----------------------------------------------------------------- C33
\* The balance of a portfolio with nothing set apart for its queued orders.
Unreserved(portfolio_id) ==
    portfolios[portfolio_id].balance + QueuedCost(buy_order_queue, portfolio_id, 1)

\* C33 (funds for deferred buys are reserved at queue time): in batch mode a buy
\* is queued only if the balance covers its cost, which leaves the balance at
\* once, so that inside a scope the balance is what the scope's other
\* transactions made of the balance at entry less the cost of every order queued
\* so far; the commit never raises InsufficientFundsError, and a commit that does
\* not raise opens one position per queued order, at the order's quantity and
\* price, and leaves every balance where it was.
C33_FundsReservedAtQueueTime ==
    [][ /\ (IsCall({"BUY"}) /\ in_batch_mode) =>
            LET p == last'.portfolio_id
                cost == last'.quantity * last'.price
            IN  IF cost > portfolios[p].balance
                THEN /\ last'.result = "InsufficientFundsError"
                     /\ buy_order_queue' = buy_order_queue
                     /\ portfolios' = portfolios
                ELSE /\ last'.result = "ok"
                     /\ Len(buy_order_queue') = Len(buy_order_queue) + 1
                     /\ portfolios'[p].balance = portfolios[p].balance - cost
                     /\ portfolios'[p].balance >= 0
        /\ scope' = "open" =>
            \A p \in Portfolios :
                portfolios'[p].balance
                    = entry'.portfolios[p].balance
                        + SignedSum(transactions_queue', p, 1)
                        - QueuedCost(buy_order_queue', p, 1)
        /\ IsExit =>
            /\ last'.result # "InsufficientFundsError"
            /\ last'.result = "ok" =>
                /\ Cardinality(NewRefs) = Len(buy_order_queue)
                /\ \A i \in 1..Len(buy_order_queue) :
                        LET position == position_objects'[Len(position_objects) + i]
                        IN  /\ position.portfolio_id = buy_order_queue[i].portfolio_id
                            /\ position.ticker = buy_order_queue[i].ticker
                            /\ position.quantity = buy_order_queue[i].quantity
                            /\ position.entry_price = buy_order_queue[i].price
                            /\ ~position.is_closed
                /\ \A p \in Portfolios : portfolios'[p].balance = portfolios[p].balance
      ]_vars

\* A scope queued one order that cost more than the cash it left, and its commit
\* opened the position with the balance still at the entry balance less the cost.
C33_Witness ==
    /\ last.op = "EXIT"
    /\ last.result = "ok"
    /\ Len(buy_order_queue) = 1
    /\ \E ref \in Refs :
          /\ position_objects[ref].quantity = buy_order_queue[1].quantity
          /\ position_objects[ref].portfolio_id = buy_order_queue[1].portfolio_id
          /\ ~position_objects[ref].is_closed
          /\ position_objects[ref].quantity * position_objects[ref].entry_price
                > portfolios[position_objects[ref].portfolio_id].balance
          /\ portfolios[position_objects[ref].portfolio_id].balance
                = entry.portfolios[position_objects[ref].portfolio_id].balance
                    - position_objects[ref].quantity * position_objects[ref].entry_price

\* ------------------------------------------------- after a failed commit
\* A scope whose commit raised: its last order has quantity 0, which the
\* precondition check lets through and Position.__init__ refuses, after the
\* positions of the orders before it were made. The caller catches the error.
FailedScopes ==
    {<<HeldLot(1, "A", 1), HeldLot(1, "A", 0)>>,
     <<HeldLot(1, "A", 1), HeldLot(2, "B", 1), HeldLot(2, "B", 0)>>}

InitFailedCommit ==
    \E contribution \in [Portfolios -> InitialContributions], lots \in FailedScopes :
    \E b \in {QueueLots(NewBroker(contribution), lots, 1)} :
    \E c \in {CommitLots(b)} :
        /\ today = 1
        /\ portfolios = c.m.portfolios
        /\ position_objects = c.m.position_objects
        /\ position_by_id = c.m.position_by_id
        /\ positions_by_ticker = c.m.positions_by_ticker
        /\ buy_order_queue = b.buy_order_queue
        /\ transactions_queue = c.transactions_queue
        /\ in_batch_mode = (c.raised # "ok")
        /\ position_table = IF c.raised = "ok" THEN c.m.position_table \cup c.inserted
                                               ELSE b.m.position_table
        /\ ledger = IF c.raised = "ok" THEN b.ledger \o c.transactions_queue ELSE b.ledger
        /\ scope = "idle"
        /\ propagating = FALSE
        /\ last = Call("EXIT", 0, 0, NoQuantity, NoPosition, NoTicker, c.raised)
        /\ nops = 0
        /\ prev_purchase_date = NoPurchase
        /\ stock_data = Tickers
        /\ entry = [portfolios |-> CreatePortfolios(contribution),
                    position_objects |-> << >>,
                    ledger |-> FirstDeposits(contribution, 1),
                    position_by_id |-> << >>]
        /\ scope_log = [fatal |-> Fatal(c.raised), only_buys |-> TRUE, calls |-> Len(lots)]
        /\ immediate = [m |-> NewBroker(contribution).m, same_rejections |-> TRUE]

SpecFailedCommit == InitFailedCommit /\ [][Next]_vars

\* ----------------------------------------------------------------- C34
\* C34 (position ids are unique): no two Position objects carry the same id, the
\* broker's position_by_id maps the id of every position it has registered to
\* that position, and no step makes an entry of position_by_id point to another
\* position than before.
C34_PositionIdsUnique ==
    [][ /\ \A a \in DOMAIN position_objects', b \in DOMAIN position_objects' :
                position_objects'[a].id = position_objects'[b].id => a = b
        /\ \A id \in DOMAIN position_by_id' :
                position_objects'[position_by_id'[id]].id = id
        /\ \A id \in DOMAIN position_by_id :
                id \in DOMAIN position_by_id' /\ position_by_id'[id] = position_by_id[id]
      ]_vars

\* ----------------------------------------------------------------- C35
BuyRows(rows) == Cardinality(RowsWhere(rows, LAMBDA row : row.type = "BUY"))

\* C35 (no double commit across scopes): entering a scope empties the buy-order
\* queue and the transaction queue and turns deferred mode on; a commit appends
\* the rows queued in its scope and one BUY row per queued order to the ledger,
\* once, and opens one position per queued order; nothing else is committed
\* while deferred mode is on; so after every commit there are as many positions
\* as BUY rows in the ledger: no order was materialised twice, no row committed
\* twice.
C35_NoDoubleCommit ==
    [][ /\ IsEnter =>
            /\ buy_order_queue' = << >>
            /\ transactions_queue' = << >>
            /\ in_batch_mode'
        /\ (IsExit /\ last'.result = "ok") =>
            /\ Len(transactions_queue') = Len(transactions_queue) + Len(buy_order_queue)
            /\ SubSeq(transactions_queue', 1, Len(transactions_queue)) = transactions_queue
            /\ ledger' = ledger \o transactions_queue'
            /\ Cardinality(NewRefs) = Len(buy_order_queue)
            /\ BuyRows(ledger') = Len(position_objects')
            /\ ~in_batch_mode'
        /\ (~IsExit /\ in_batch_mode) => ledger' = ledger
      ]_vars

\* A second scope has committed: the positions of the scope before it and the one
\* position of its own order are there, each with its one BUY row.
C35_Witness ==
    /\ last.op = "EXIT"
    /\ last.result = "ok"
    /\ Len(buy_order_queue) = 1
    /\ Len(position_objects) >= 2
    /\ BuyRows(ledger) = Len(position_objects)
    /\ \E i \in 1..Len(ledger) :
          /\ ledger[i].type = "BUY"
          /\ ledger[i].timestamp = 1
          /\ ledger[Len(ledger)].type = "BUY"
          /\ ledger[Len(ledger)].timestamp > 1

\* ------------------------------------------------------- BuyAndHoldBot
\* Scheduler(Period.WEEKLY, 1).has_period_elapsed: whole days, seven to the week.
BuyScheduleDays == 7

has_period_elapsed(current_date, previous_elapsed_date) ==
    current_date - previous_elapsed_date >= BuyScheduleDays

\* The bot in the middle of update(): the broker as its calls have left it, its
\* prev_purchase_date, and how the attempt for each ticker so far ended.
BotState(b, purchase_date) ==
    [b |-> b, prev_purchase_date |-> purchase_date, attempts |-> << >>]

\* Lines 365-366: the error is caught and nothing else is done.
SwallowedAndRecorded(s, bought, now) ==
    [b |-> [bought EXCEPT !.raised = "ok"],
     prev_purchase_date |-> now,
     attempts |-> Append(s.attempts, "InsufficientFundsError")]

Swallowed(s, bought, now) ==
    [s EXCEPT !.b = [bought EXCEPT !.raised = "ok"],
              !.attempts = Append(@, "InsufficientFundsError")]

\* Lines 361-366: what follows the return of execute_buy_order, or its exception.
Attempted(s, bought, now) ==
    IF bought.raised = "InsufficientFundsError"
    THEN Swallowed(s, bought, now)
    ELSE IF bought.raised = "ok"
    THEN [b |-> bought, prev_purchase_date |-> now, attempts |-> Append(s.attempts, "ok")]
    ELSE [s EXCEPT !.b = bought, !.attempts = Append(@, bought.raised)]

\* Broker.get_quote: the rows of today and of the day before, or the KeyError of
\* the dictionary that has no row for the ticker.
get_quote(quotes, ticker) ==
    IF ticker \in quotes.stock_data /\ ticker \in quotes.yesterdays_stock_data
    THEN "ok"
    ELSE "KeyError"

\* Lines 355-366 for one ticker; `quantity` is what buy_quantity returned.
Attempt(s, batch, now, quotes, ticker, quantity, price) ==
    IF ~has_period_elapsed(now, s.prev_purchase_date)
    THEN [s EXCEPT !.attempts = Append(@, "none")]
    ELSE IF get_quote(quotes, ticker) # "ok"
    THEN [s EXCEPT !.b.raised = get_quote(quotes, ticker),
                   !.attempts = Append(@, get_quote(quotes, ticker))]
    ELSE IF quantity <= 0
    THEN [s EXCEPT !.attempts = Append(@, "none")]
    ELSE Apply(LAMBDA bought : Attempted(s, bought, now),
               Transact(s.b, batch, now, "BUY", BotPortfolio, price, quantity, NoPosition,
                        ticker))

\* Line 354: for ticker in self.tickers.
RECURSIVE BuyAndHoldTickers(_, _, _, _, _, _, _)
BuyAndHoldTickers(s, batch, now, quotes, quantity, price, i) ==
    IF i > Len(TickerOrder) \/ s.b.raised # "ok"
    THEN s
    ELSE Apply(LAMBDA tried : BuyAndHoldTickers(tried, batch, now, quotes, quantity, price,
                                                i + 1),
               Attempt(s, batch, now, quotes, TickerOrder[i], quantity[TickerOrder[i]],
                       price))

\* TradingBot.update, lines 257-267: the contribution of the day, if there is one.
TradingBotUpdate(b, batch, now, amount) ==
    IF amount # 0
    THEN Transact(b, batch, now, "DEPOSIT", BotPortfolio, amount, NoQuantity, NoPosition,
                  NoTicker)
    ELSE b

\* BuyAndHoldBot.update.
BuyAndHoldUpdate(b, purchase_date, batch, now, quotes, amount, quantity, price) ==
    Apply(LAMBDA contributed :
                IF contributed.raised = "ok"
                THEN BuyAndHoldTickers(BotState(contributed, purchase_date), batch, now,
                                       quotes, quantity, price, 1)
                ELSE BotState(contributed, purchase_date),
          TradingBotUpdate(b, batch, now, amount))

\* Days without corporate actions.
UneventfulDays ==
    {data \in QuietDays : \A t \in Tickers : data.stock_data[t].dividend_amount = 0}

\* What the functions handed to the bot return: get_contribution_amount nothing or a
\* contribution, buy_quantity nothing to buy or a lot of two shares, for each ticker.
BotContributions == {0} \cup Amounts
LotSizes == {0, 2}
BuyQuantities == [Tickers -> LotSizes]

DayCall(gap, data, amount, quantity, price, attempts, result) ==
    [op |-> "DAY", result |-> result, gap |-> gap, data |-> data, amount |-> amount,
     quantity |-> quantity, price |-> price, attempts |-> attempts,
     balance_before |-> [p \in Portfolios |-> portfolios[p].balance]]

\* How the day's scope ends: the commit of __exit__, and what the loop sees.
DayEnds(gap, data, amount, quantity, price, now, s, c) ==
    /\ today' = now
    /\ portfolios' = c.m.portfolios
    /\ position_objects' = c.m.position_objects
    /\ position_by_id' = c.m.position_by_id
    /\ positions_by_ticker' = c.m.positions_by_ticker
    /\ buy_order_queue' = s.b.buy_order_queue
    /\ transactions_queue' = c.transactions_queue
    /\ in_batch_mode' = (c.raised # "ok")
    /\ position_table' = IF c.raised = "ok" THEN c.m.position_table \cup c.inserted
                                            ELSE position_table
    /\ ledger' = IF c.raised = "ok" THEN s.b.ledger \o c.transactions_queue ELSE s.b.ledger
    /\ scope' = "idle"
    /\ propagating' = FALSE
    /\ last' = DayCall(gap, data, amount, quantity, price, s.attempts,
                       IF s.b.raised # "ok" THEN s.b.raised ELSE c.raised)
    /\ nops' = nops + 1
    /\ entry' = Snapshot
    /\ scope_log' = [fatal |-> Fatal(s.b.raised) \/ Fatal(c.raised), only_buys |-> FALSE,
                     calls |-> 2]
    /\ immediate' = [m |-> Memory, same_rejections |-> TRUE]
    /\ prev_purchase_date' = s.prev_purchase_date
    /\ stock_data' = DOMAIN data.stock_data

\* demo/backtest.py, lines 26-28, for one date:
\*     with broker: broker.update(today); bot.update(today, broker)
BuyAndHoldDay(gap, data, amount, quantity, price) ==
    /\ nops < MaxOps
    /\ scope = "idle"
    /\ last.result = "ok"
    /\ WholeSplits(data)
    /\ \E entered \in {[BrokerState EXCEPT !.buy_order_queue = << >>,
                                           !.transactions_queue = << >>]} :
       \E taxed \in {DoTheTaxes(entered, TRUE, today + gap, today, 1)} :
       \E adjusted \in {ProcessAdjustments(taxed, TRUE, today + gap, data)} :
       \E s \in {IF adjusted.raised = "ok"
                 THEN BuyAndHoldUpdate(adjusted, prev_purchase_date, TRUE, today + gap,
                                       [stock_data |-> DOMAIN data.stock_data,
                                        yesterdays_stock_data |-> stock_data],
                                       amount, quantity, price)
                 ELSE BotState(adjusted, prev_purchase_date)} :
       \E c \in {CommitLots([s.b EXCEPT !.raised = "ok"])} :
            DayEnds(gap, data, amount, quantity, price, today + gap, s, c)

NextBuyAndHold ==
    \E gap \in DayGaps, data \in UneventfulDays, amount \in BotContributions,
       quantity \in BuyQuantities, price \in BuyPrices :
            BuyAndHoldDay(gap, data, amount, quantity, price)

SpecBuyAndHold == InitHeld /\ [][NextBuyAndHold]_vars

\* A day of the buy-and-hold loop, the tickers whose buy went through on it, and
\* the purchase date the bot holds when it comes to ticker i.
IsDay == nops' = nops + 1 /\ last'.op = "DAY"
Bought == {i \in 1..Len(last'.attempts) : last'.attempts[i] = "ok"}
Refused == {i \in 1..Len(last'.attempts) : last'.attempts[i] = "InsufficientFundsError"}
PurchaseDateAt(i) ==
    IF \E j \in Bought : j < i THEN today' ELSE prev_purchase_date
OrderOf(i) ==
    [ticker |-> TickerOrder[i], quantity |-> last'.quantity[TickerOrder[i]],
     price |-> last'.price]
IsOrderOf(order, i) ==
    order = BuyOrder(BotPortfolio, OrderOf(i).ticker, OrderOf(i).quantity, OrderOf(i).price,
                     today')
IsPositionOf(position, i) ==
    /\ position.portfolio_id = BotPortfolio
    /\ position.ticker = OrderOf(i).ticker
    /\ position.quantity = OrderOf(i).quantity
    /\ position.entry_price = OrderOf(i).price
    /\ ~position.is_closed

\* C36: InsufficientFundsError is not retried. On a day of the buy-and-hold loop a
\* refused buy is one the portfolio could not pay for, and it leaves nothing behind for
\* a later attempt: the orders queued and committed that day, the BUY rows written and
\* the positions created are exactly those of the buys that went through. The bot
\* records a purchase only for a buy that went through (prev_purchase_date is unchanged
\* on a day with none), goes on to every remaining ticker that is due, and the day
\* ends without an error, the scope closed, so that the loop moves to the next date.
C36_RefusedBuyNotRetried ==
    [][IsDay =>
        /\ last'.result = "ok" /\ scope' = "idle" /\ ~in_batch_mode'
        /\ Len(last'.attempts) = Len(TickerOrder)
        /\ \A i \in 1..Len(TickerOrder) :
              /\ last'.attempts[i] \in {"ok", "InsufficientFundsError", "none"}
              /\ last'.attempts[i] = "none" <=>
                    \/ OrderOf(i).quantity <= 0
                    \/ ~has_period_elapsed(today', PurchaseDateAt(i))
              /\ i \in Refused =>
                    OrderOf(i).quantity * OrderOf(i).price
                        > portfolios'[BotPortfolio].balance
        /\ prev_purchase_date' = IF Bought = {} THEN prev_purchase_date ELSE today'
        /\ Len(buy_order_queue') = Cardinality(Bought)
        /\ Len(position_objects') = Len(position_objects) + Cardinality(Bought)
        /\ Cardinality(position_table') = Cardinality(position_table) + Cardinality(Bought)
        /\ Cardinality(RowsWhere(NewRows, LAMBDA row : row.type = "BUY"))
              = Cardinality(Bought)
        /\ \A k \in 1..Len(buy_order_queue') :
              \E i \in Bought : IsOrderOf(buy_order_queue'[k], i)
        /\ \A i \in Bought :
              /\ \E k \in 1..Len(buy_order_queue') : IsOrderOf(buy_order_queue'[k], i)
              /\ \E ref \in NewRefs : IsPositionOf(position_objects'[ref], i)
        /\ \A ref \in NewRefs : \E i \in Bought : IsPositionOf(position_objects'[ref], i)
    ]_vars

\* A later day of the loop, after a day on which the bot bought: the buy for the first
\* ticker was due again and was refused, the bot went on to the second ticker, whose
\* buy was due as well and was refused too, and the date of the earlier purchase stands.
C36_Witness ==
    /\ last.op = "DAY"
    /\ last.result = "ok"
    /\ nops >= 2
    /\ last.attempts = <<"InsufficientFundsError", "InsufficientFundsError">>
    /\ prev_purchase_date < today
    /\ prev_purchase_date # NoPurchase

\* ----------------------------------------------------------------- C37
\* Days on which daily_stock_data has a row for some of the tickers only (or for all,
\* or for none); the rows carry a dividend.
DividendRow == [dividend_amount |-> 1, split_coefficient |-> FromInt(1)]
GappyDays ==
    {[removed |-> NoTicker, close |-> close, stock_data |-> [t \in quoted |-> DividendRow]] :
        close \in ClosePrices, quoted \in SUBSET Tickers}

NextGaps ==
    \E gap \in DayGaps, data \in GappyDays, quantity \in BuyQuantities, price \in BuyPrices :
        BuyAndHoldDay(gap, data, 0, quantity, price)

SpecGaps == InitHeld /\ [][NextGaps]_vars

\* The tickers without a row today or on the day before, and the positions the day's
\* dividend pass has to pay.
Unquoted == {i \in 1..Len(TickerOrder) :
                \/ TickerOrder[i] \notin stock_data'
                \/ TickerOrder[i] \notin stock_data}
DividendDue ==
    {ref \in 1..Len(position_objects) :
        /\ ~position_objects[ref].is_closed
        /\ position_objects[ref].ticker \in stock_data'
        /\ last'.data.stock_data[position_objects[ref].ticker].dividend_amount > 0}

\* The corporate-action pass of a day with gaps works on the tickers that have a row:
\* one DIVIDEND row for every open position in a ticker whose row carries a dividend.
GapsInAdjustments ==
    [][IsDay =>
        Cardinality(RowsWhere(NewRows, LAMBDA row : row.type = "DIVIDEND"))
            = Cardinality(DividendDue)
    ]_vars

\* C37: data gaps are tolerated. On a day of the loop on which a ticker has no row
\* for today or for the day before, the corporate-action pass pays the dividends of
\* the tickers that have a row, the bot's update skips the ticker and comes to every
\* other ticker, nothing is raised, and the loop goes on to the next date.
C37_DataGapsTolerated ==
    [][IsDay =>
        /\ Cardinality(RowsWhere(NewRows, LAMBDA row : row.type = "DIVIDEND"))
              = Cardinality(DividendDue)
        /\ last'.result = "ok" /\ scope' = "idle" /\ ~in_batch_mode'
        /\ Len(last'.attempts) = Len(TickerOrder)
        /\ \A i \in Unquoted : last'.attempts[i] = "none"
    ]_vars

\* ----------------------------------------------------------------- C38
Lowest(S) == CHOOSE x \in S : \A y \in S : x <= y

\* The part of a gain g that lies in the bracket starting at threshold t: from t up
\* to the next threshold of the table, or up to g if g ends before.
InBracket(tax_brackets, t, g) ==
    LET above == {u \in DOMAIN tax_brackets : u > t /\ u <= g}
    IN  IF t > g THEN 0
        ELSE IF above = {} THEN g - t
        ELSE Lowest(above) - t

RECURSIVE Progressive(_, _, _)
Progressive(tax_brackets, thresholds, g) ==
    IF thresholds = {}
    THEN 0
    ELSE LET t == CHOOSE u \in thresholds : TRUE
         IN  tax_brackets[t] * InBracket(tax_brackets, t, g)
                + Progressive(tax_brackets, thresholds \ {t}, g)

RECURSIVE SumOver(_, _)
SumOver(by_rate, rates) ==
    IF rates = {}
    THEN 0
    ELSE LET r == CHOOSE x \in rates : TRUE
         IN  by_rate[r] + SumOver(by_rate, rates \ {r})

Reported(by_rate) == SumOver(by_rate, DOMAIN by_rate)

\* The total returned is the progressive sum; a gain below the lowest threshold is
\* taxed 0.
ProgressiveTotal ==
    (last.op = "_calculate_tax" /\ DOMAIN last.tax_brackets # {}) =>
        /\ last.returned
              = Progressive(last.tax_brackets, DOMAIN last.tax_brackets, last.net_income)
        /\ last.net_income < Lowest(DOMAIN last.tax_brackets) => last.returned = 0

\* The amounts reported add up when no two brackets of the table have the same rate.
ReportedWithDistinctRates ==
    (/\ last.op = "_calculate_tax"
     /\ DOMAIN last.tax_brackets # {}
     /\ \A t, u \in DOMAIN last.tax_brackets :
            t # u => last.tax_brackets[t] # last.tax_brackets[u]) =>
        /\ Reported(last.by_rate.payable_tax_by_rate) = last.returned
        /\ Reported(last.by_rate.taxable_amounts_by_rate)
              = IF last.net_income >= Lowest(DOMAIN last.tax_brackets)
                THEN last.net_income - Lowest(DOMAIN last.tax_brackets)
                ELSE 0

\* C38 (progressive bracket computation): for a bracket table with thresholds
\* t1 < ... < tn and a gain g, _calculate_tax returns the sum over the brackets with
\* ti <= g of ri * (min(g, t(i+1)) - ti); brackets above g contribute nothing and a
\* gain below t1 is taxed 0; the taxable amounts it reports sum to g - t1 (to 0 for
\* a gain below t1) and the tax amounts it reports sum to the total tax.
C38_ProgressiveBrackets ==
    (last.op = "_calculate_tax" /\ DOMAIN last.tax_brackets # {}) =>
        /\ last.returned
              = Progressive(last.tax_brackets, DOMAIN last.tax_brackets, last.net_income)
        /\ last.net_income < Lowest(DOMAIN last.tax_brackets) => last.returned = 0
        /\ Reported(last.by_rate.payable_tax_by_rate) = last.returned
        /\ Reported(last.by_rate.taxable_amounts_by_rate)
              = IF last.net_income >= Lowest(DOMAIN last.tax_brackets)
                THEN last.net_income - Lowest(DOMAIN last.tax_brackets)
                ELSE 0

\* ======================================================================
\* A year of sales at large losses
\* ======================================================================
\* Each portfolio holds one share bought for 4000; it is sold at a loss above the
\* cap on deductible losses, at a loss below it, or at a gain.
LossContribution == 8000
LossBuyPrice == 4000
LossSellPrices == {500, 2000, 5000}

BoughtDear ==
    Transact(Transact(NewBroker([p \in Portfolios |-> LossContribution]),
                      FALSE, 1, "BUY", 1, LossBuyPrice, 1, NoPosition, "A"),
             FALSE, 1, "BUY", 2, LossBuyPrice, 1, NoPosition, "B")

InitLosses ==
    \E b \in {BoughtDear} :
        /\ today = 1
        /\ portfolios = b.m.portfolios
        /\ position_objects = b.m.position_objects
        /\ position_by_id = b.m.position_by_id
        /\ positions_by_ticker = b.m.positions_by_ticker
        /\ buy_order_queue = << >>
        /\ transactions_queue = << >>
        /\ in_batch_mode = FALSE
        /\ position_table = b.m.position_table
        /\ ledger = b.ledger
        /\ scope = "idle"
        /\ propagating = FALSE
        /\ last = Call("INIT", 0, 0, NoQuantity, NoPosition, NoTicker, b.raised)
        /\ nops = 0
        /\ prev_purchase_date = NoPurchase
        /\ stock_data = Tickers
        /\ entry = Snapshot
        /\ scope_log = [fatal |-> FALSE, only_buys |-> TRUE, calls |-> 0]
        /\ immediate = [m |-> Memory, same_rejections |-> TRUE]

NextLosses ==
    \/ \E gap \in DayGaps, data \in QuietDays : Update(gap, data)
    \/ \E ref \in Refs, price \in LossSellPrices : StrategyClose(ref, price)

SpecLosses == InitLosses /\ [][NextLosses]_vars

\* ----------------------------------------------------------------- C39
\* The report generate_tax_report makes for a portfolio in the first update of a
\* year, and the net gains it is made of.
ReportOf(portfolio_id) == TaxReport(BrokerState.m, ledger, portfolio_id, today')
NetGainsOf(portfolio_id) ==
    ReportOf(portfolio_id).short_term_capital_gains
        + ReportOf(portfolio_id).long_term_capital_gains

\* C39 (loss deduction and total): in the tax report of a year, deductible_losses is
\* min(3000, |min(0, short_term_gains + long_term_gains)|): 0 when the net gains are
\* not negative, the net loss when it is at most 3000, and 3000 above; total_tax is
\* short_term_tax + long_term_tax - deductible_losses, not floored at zero, and it is
\* this amount, negative or not, that the year's deduction asks for.
C39_LossDeduction ==
    [][ (IsUpdate /\ last'.result = "ok" /\ Year(today') > Year(today)) =>
            \A p \in Portfolios :
                /\ ReportOf(p).deductible_losses
                      = IF NetGainsOf(p) >= 0 THEN 0
                        ELSE IF 0 - NetGainsOf(p) <= 3000 THEN 0 - NetGainsOf(p)
                        ELSE 3000
                /\ ReportOf(p).total_tax
                      = CalculateTax(ReportOf(p).short_term_capital_gains,
                                     ordinary_tax_rates, 1)
                          + CalculateTax(ReportOf(p).long_term_capital_gains,
                                         capital_gains_tax_rates, 1)
                          - ReportOf(p).deductible_losses
                /\ \A i \in TaxRowsFor(p) :
                      Requested(p, i) = ReportOf(p).total_tax + portfolios[p].taxes_owing
      ]_vars

\* The first update of a new year, after one portfolio sold at a loss of 3500 and the
\* other at a loss of 2000: the first was asked for -3000, the second for -2000.
C39_Witness ==
    /\ last.op = "UPDATE"
    /\ last.result = "ok"
    /\ Year(today) > Year(today - last.gap)
    /\ \E i \in 1..Len(ledger), j \in 1..Len(ledger) :
          /\ ledger[i].type = "TAX" /\ ledger[i].timestamp = today
          /\ ledger[j].type = "TAX" /\ ledger[j].timestamp = today
          /\ ledger[i].price * ledger[i].quantity = 0 - 3000
          /\ ledger[j].price * ledger[j].quantity = 0 - 2000
          /\ realised_pl(position_objects[1]) + realised_pl(position_objects[2]) = 0 - 5500

====
